---- MODULE Spec2Model ----
(***************************************************************************)
(* Domain-level DNA hybridization simulator (Nascent).                     *)
(*                                                                         *)
(* Three state machines share this module:                                 *)
(*   SpecSim  - nascent/nacent_sim/dom_anneal_sim.py, class Simulator:     *)
(*              __init__, select_event_domains, step, simulate, anneal,    *)
(*              record_stats_snapshot, save_stats_cache.                   *)
(*   SpecCx   - nascent/graph_sim_nx/complex.py, class Complex: the        *)
(*              mutators wrapped by state_should_change and the            *)
(*              fingerprint caches.                                        *)
(*   SpecOwn  - two Complex objects that take strands from one pool: the   *)
(*              strand-level mutators and the back-pointer strand.complex. *)
(* Each specification leaves the other machines' variables untouched.      *)
(*                                                                         *)
(* hash() is modelled as an injective encoding of its argument: the        *)
(* fingerprint of a complex is the triple (strands, hybridization,         *)
(* stacking) itself.  Collisions of the built-in hash (and of the          *)
(* "% 100000" reduction) are outside the model.                            *)
(***************************************************************************)
EXTENDS Integers, Sequences, FiniteSets, TLC

\* Python's None where a domain, strand or number is expected (identifiers start at 1).
None == 0

(***************************************************************************)
(* ----------------------------  SIMULATOR  ------------------------------ *)
(***************************************************************************)

\* Bounds of the simulator model.
MaxSteps == 3

\* The strands that can be put in the tube: t1 = <A, B>, t2 = <a>, t3 = <b>, t4 = <a>.
SimStrands == 1 .. 4
SimDomains == 1 .. 5
SimNames == {"A", "a", "B", "b"}
SimName == <<"A", "B", "a", "b", "a">>
SimStrandOf == <<1, 1, 2, 3, 4>>
Temperatures == {330, 350}

\* Arguments delta_T of anneal: a ramp between the two temperatures visits three.
DeltaTs == {-10, 0, 10}

\* The stats types (Default_statstypes).
Default_statstypes == {"timesampling", "changesampling"}

\* Argument outputstatsfiles of Simulator.__init__, by the stats types that have a file:
\* None (the default), or a file for every stats type.
OutputstatsfilesArgs == {{}, Default_statstypes}

\* str.upper() / str.lower() on the species names.
Upper == [n \in SimNames |-> IF n \in {"A", "a"} THEN "A" ELSE "B"]
Lower == [n \in SimNames |-> IF n \in {"A", "a"} THEN "a" ELSE "b"]

\* Simulator.Domains_list: the domains of the strands of the tube.
Domains_list(strands) == {d \in SimDomains : SimStrandOf[d] \in strands}

\* Simulator.__init__: the default domain pairing map, over the species of the tube.
default_domain_pairs(strands) ==
    [n \in {SimName[d] : d \in Domains_list(strands)} |->
        IF n = Upper[n] THEN Lower[n] ELSE Upper[n]]

\* Argument domain_pairs of Simulator.__init__: None (<<>>), or a map in which one
\* species is its own complement.
DomainPairsArgs ==
    {<<>>} \cup {[n \in SimNames |-> IF n = k THEN k
                                     ELSE IF n = Upper[n] THEN Lower[n] ELSE Upper[n]]
                 : k \in {"A", "b"}}

\* Simulator.__init__: "if domain_pairs is None: domain_pairs = {...}".
domain_pairs_or_default(domain_pairs, strands) ==
    IF domain_pairs = <<>> THEN default_domain_pairs(strands) ELSE domain_pairs

\* The assertion of __init__ left out: every map is accepted.
domain_pairs_accepted_unchecked(domain_pairs) == TRUE

\* Simulator.__init__: "assert not any(k == v for k, v in domain_pairs.items())".
domain_pairs_accepted(domain_pairs) ==
    ~ \E k \in DOMAIN domain_pairs : domain_pairs[k] = k

N_domains(strands) == Cardinality(Domains_list(strands))
N_strands(strands) == Cardinality(strands)

\* Simulator.n_hybridized_domains
n_hybridized_domains(P, strands) == Cardinality({d \in Domains_list(strands) : P[d] # None})

\* Strand.is_hybridized: some domain of the strand has a partner.
is_hybridized(P, s) == \E d \in SimDomains : SimStrandOf[d] = s /\ P[d] # None

\* Simulator.n_hybridized_strands
n_hybridized_strands(P, strands) == Cardinality({s \in strands : is_hybridized(P, s)})

\* A consistent tube: partners are domains of the tube, and the partner relation is
\* reciprocal and complementary.
ConsistentPartner(P, strands) ==
    \A d \in SimDomains :
        P[d] # None => /\ {d, P[d]} \subseteq Domains_list(strands)
                       /\ P[P[d]] = d
                       /\ SimName[P[d]] = default_domain_pairs(strands)[SimName[d]]

\* Simulator.record_stats_snapshot: the snapshot tuple; a fraction n/m is kept as <<n, m>>.
Snapshot(T, ndh, nsh, strands) ==
    <<T, ndh, <<ndh, N_domains(strands)>>, nsh, <<nsh, N_strands(strands)>>>>

\* record_stats_snapshot that puts the snapshot at the head of the cache.
record_stats_snapshot_at_head(cache, T, statstype, ndh, nsh, strands) ==
    [cache EXCEPT ![statstype] = <<Snapshot(T, ndh, nsh, strands)>> \o @]

record_stats_snapshot(cache, T, statstype, ndh, nsh, strands) ==
    [cache EXCEPT ![statstype] = Append(@, Snapshot(T, ndh, nsh, strands))]

\* save_stats_cache: what one "fp.write('\n'.join(lines) + '\n')" appends to a file, as a
\* list of lines (a line is the tuple of its fields; <<>> is an empty line).  With no
\* line to join, the write is the single "\n": one empty line.
WrittenLines(lines) == IF Len(lines) = 0 THEN << <<>> >> ELSE lines

\* save_stats_cache without "self.Stats_cache[statstype] = []": it writes and keeps the cache.
save_stats_cache_keeping_cache(cache, files, outputfilenames) ==
    IF outputfilenames = {} THEN <<cache, files>>
    ELSE << cache,
            [k \in DOMAIN files |->
                IF k \in outputfilenames THEN files[k] \o (IF Len(cache[k]) = 0 THEN << <<>> >> ELSE cache[k])
                ELSE files[k]] >>

\* Simulator.save_stats_cache: <<Stats_cache, files>> after the call.  outputfilenames is
\* given by the stats types that have a file; with none the call returns at once.
save_stats_cache(cache, files, outputfilenames) ==
    IF outputfilenames = {} THEN <<cache, files>>
    ELSE << [k \in DOMAIN cache |-> IF k \in outputfilenames THEN <<>> ELSE cache[k]],
            [k \in DOMAIN files |->
                IF k \in outputfilenames THEN files[k] \o WrittenLines(cache[k])
                ELSE files[k]] >>

\* The orders in which "for statstype, outputfn in outputfilenames.items()" can visit the
\* streams that have a file.
ItemsOrders(outputfilenames) ==
    {order \in [1 .. Cardinality(outputfilenames) -> outputfilenames] :
        \A i \in DOMAIN order, j \in DOMAIN order : order[i] = order[j] => i = j}

\* save_stats_cache_io_error that resets the cache of the stream whose write failed.
save_stats_cache_io_error_losing_cache(cache, files, order, failing, written) ==
    << [k \in DOMAIN cache |->
           IF k \in {order[i] : i \in 1 .. failing} THEN <<>> ELSE cache[k]],
       [k \in DOMAIN files |->
           IF k \in {order[i] : i \in 1 .. failing - 1}
           THEN files[k] \o WrittenLines(cache[k])
           ELSE IF k = order[failing]
           THEN files[k] \o SubSeq(WrittenLines(cache[k]), 1, written)
           ELSE files[k]] >>

\* Simulator.save_stats_cache when open() or fp.write() raises for the stream
\* order[failing], after `written` of its lines reached the file: the streams before it are
\* written and reset, the exception leaves the loop before
\* "self.Stats_cache[statstype] = []" of the failing stream, and the streams after it are
\* not visited.
save_stats_cache_io_error(cache, files, order, failing, written) ==
    << [k \in DOMAIN cache |->
           IF k \in {order[i] : i \in 1 .. failing - 1} THEN <<>> ELSE cache[k]],
       [k \in DOMAIN files |->
           IF k \in {order[i] : i \in 1 .. failing - 1}
           THEN files[k] \o WrittenLines(cache[k])
           ELSE IF k = order[failing]
           THEN files[k] \o SubSeq(WrittenLines(cache[k]), 1, written)
           ELSE files[k]] >>

\* The outcomes <<Stats_cache, files>> of a save_stats_cache that raises an I/O error.
save_stats_cache_io_errors(cache, files, outputfilenames) ==
    UNION { UNION { {save_stats_cache_io_error(cache, files, order, failing, written) :
                        written \in 0 .. Len(WrittenLines(cache[order[failing]]))}
                    : failing \in DOMAIN order }
            : order \in ItemsOrders(outputfilenames) }

\* The cache size above which save_stats_if_large saves: 10 000 in the code, scaled down so
\* that a cache can pass it within MaxSteps steps.
LargeCacheSize == 1

\* Simulator.save_stats_if_large
save_stats_if_large(cache, files, outputfilenames) ==
    IF \E k \in DOMAIN cache : Len(cache[k]) > LargeCacheSize
    THEN save_stats_cache(cache, files, outputfilenames)
    ELSE <<cache, files>>

\* Simulator.__init__: "self.Visualization_hook = None # self.save_stats_if_large".
Visualization_hook == None

\* Simulator.step: "if self.Visualization_hook: self.Visualization_hook(...)".
call_Visualization_hook(cache, files, outputfilenames) ==
    IF Visualization_hook # None
    THEN save_stats_if_large(cache, files, outputfilenames)
    ELSE <<cache, files>>

\* hybridize that sets the partner of the first domain only.
hybridize_first_domain_only(P, d1, d2) == [P EXCEPT ![d1] = d2]

\* Domain.hybridize: sets the reciprocal partner relation.
hybridize(P, d1, d2) == [P EXCEPT ![d1] = d2, ![d2] = d1]

\* Domain.dehybridize: clears the reciprocal partner relation.
dehybridize(P, d1, d2) == [P EXCEPT ![d1] = None, ![d2] = None]

\* select_event_domains without the "if not d.Partner" filter on the candidates.
select_event_domains_any_candidate(P, strands, pairs) ==
    UNION { IF P[dom1] # None
            THEN {<<dom1, P[dom1], TRUE>>}
            ELSE {<<dom1, dom2, FALSE>> :
                    dom2 \in {d \in Domains_list(strands) : SimName[d] = pairs[SimName[dom1]]}
                              \cup {None}}
          : dom1 \in Domains_list(strands) }

\* select_event_domains that takes its candidates from every domain there is, in the tube
\* or not.
select_event_domains_beyond_tube(P, strands, pairs) ==
    UNION { IF P[dom1] # None
            THEN {<<dom1, P[dom1], TRUE>>}
            ELSE {<<dom1, dom2, FALSE>> :
                    dom2 \in {d \in SimDomains : SimName[d] = pairs[SimName[dom1]] /\ P[d] = None}
                              \cup {None}}
          : dom1 \in Domains_list(strands) }

\* select_event_domains without the early return for a dom1 that has a partner.
select_event_domains_ignoring_partner(P, strands, pairs) ==
    UNION { LET candidates == {d \in Domains_list(strands) :
                                  /\ SimName[d] = pairs[SimName[dom1]]
                                  /\ P[d] = None}
            IN  {<<dom1, dom2, FALSE>> : dom2 \in candidates \cup {None}}
          : dom1 \in Domains_list(strands) }

\* select_event_domains that draws its candidates from the species of dom1 itself, as a
\* pairing map with a self-complementary species would have it.
select_event_domains_own_species(P, strands, pairs) ==
    UNION { IF P[dom1] # None
            THEN {<<dom1, P[dom1], TRUE>>}
            ELSE LET candidates == {d \in Domains_list(strands) :
                                       /\ SimName[d] = SimName[dom1]
                                       /\ P[d] = None}
                 IN  {<<dom1, dom2, FALSE>> : dom2 \in candidates \cup {None}}
          : dom1 \in Domains_list(strands) }

\* Simulator.select_event_domains: the set of possible results <<dom1, dom2, is_hybridized>>.
\* is_hybridized is None when dom1 has no partner; it is only ever tested for truth, and
\* FALSE stands for it.
\* Domains_by_name is a defaultdict over the domains of the tube: a species that is not in
\* the tube has no candidate.  The categorical draw can return the null candidate only
\* when the weights sum below 1, which is always the case when there is no candidate.
select_event_domains(P, strands, pairs) ==
    UNION { IF P[dom1] # None
            THEN {<<dom1, P[dom1], TRUE>>}
            ELSE LET candidates == {d \in Domains_list(strands) :
                                       /\ SimName[d] = pairs[SimName[dom1]]
                                       /\ P[d] = None}
                 IN  {<<dom1, dom2, FALSE>> : dom2 \in candidates \cup {None}}
          : dom1 \in Domains_list(strands) }

\* The counter update with a step of one per mutation instead of two.
N_domains_hybridized_by_one(kind, n) ==
    IF kind = "hybridize" THEN n + 1
    ELSE IF kind = "dehybridize" THEN n - 1
    ELSE n

\* Simulator.step: the update of N_domains_hybridized on an accepted mutation.
N_domains_hybridized_after(kind, n) ==
    IF kind = "hybridize" THEN n + 2
    ELSE IF kind = "dehybridize" THEN n - 2
    ELSE n

\* anneal: "assert delta_T != 0; assert T_start > T_finish if delta_T < 0 else
\* T_finish > T_start", without the second assertion.
anneal_accepts_any_direction(T_start, T_finish, delta_T) == delta_T # 0

\* anneal: the two assertions on the schedule.
anneal_accepts(T_start, T_finish, delta_T) ==
    /\ delta_T # 0
    /\ IF delta_T < 0 THEN T_start > T_finish ELSE T_finish > T_start

\* anneal: the condition of "while T >= T_finish if delta_T < 0 else T <= T_finish".
anneal_continues(T, T_finish, delta_T) ==
    IF delta_T < 0 THEN T >= T_finish ELSE T <= T_finish

\* The number of temperatures an accepted schedule visits.
RECURSIVE N_temperatures(_, _, _)
N_temperatures(T, T_finish, delta_T) ==
    IF anneal_continues(T, T_finish, delta_T)
    THEN 1 + N_temperatures(T + delta_T, T_finish, delta_T)
    ELSE 0

(***************************************************************************)
(* The weights of the categorical draw in select_event_domains.  A weight  *)
(* is a float of the code; the model takes the weights from the multiples  *)
(* of 1/WeightUnit and computes with them exactly, a number being the pair *)
(* <<numerator, denominator>> with a positive denominator.                 *)
(***************************************************************************)
WeightUnit == 2
MaxWeight == 3
MaxCandidates == 3

\* The lists of weights effective_activity can give to the candidates.
DomainWeightLists == UNION {[1 .. n -> 0 .. MaxWeight] : n \in 0 .. MaxCandidates}

\* "domain_weights_sum = sum(domain_weights)", in multiples of 1/WeightUnit.
RECURSIVE domain_weights_sum(_)
domain_weights_sum(domain_weights) ==
    IF domain_weights = <<>> THEN 0
    ELSE Head(domain_weights) + domain_weights_sum(Tail(domain_weights))

\* The weights of the draw without "if domain_weights_sum > 1: normalize".
choice_weights_not_normalized(domain_weights) ==
    LET W == domain_weights_sum(domain_weights)
        given == [i \in 1 .. Len(domain_weights) |-> <<domain_weights[i], WeightUnit>>]
    IN  IF W < WeightUnit
        THEN [p |-> Append(given, <<WeightUnit - W, WeightUnit>>), null_candidate |-> TRUE]
        ELSE [p |-> given, null_candidate |-> FALSE]

\* select_event_domains: what np.random.choice is called with, the weights p and whether
\* None was appended to the candidates.
choice_weights(domain_weights) ==
    LET W == domain_weights_sum(domain_weights)
        given == [i \in 1 .. Len(domain_weights) |-> <<domain_weights[i], WeightUnit>>]
    IN  IF W < WeightUnit
        THEN \* domain_weights.append(1 - domain_weights_sum); candidates.append(None)
             [p |-> Append(given, <<WeightUnit - W, WeightUnit>>), null_candidate |-> TRUE]
        ELSE IF W > WeightUnit
        THEN \* w / domain_weights_sum: (w/WeightUnit) / (W/WeightUnit)
             [p |-> [i \in 1 .. Len(domain_weights) |->
                        <<domain_weights[i] * WeightUnit, WeightUnit * W>>],
              null_candidate |-> FALSE]
        ELSE [p |-> given, null_candidate |-> FALSE]

(***************************************************************************)
(* The probability step compares with its draw.  Numbers are pairs         *)
(* <<numerator, denominator>> with a positive denominator.                 *)
(***************************************************************************)

\* The arguments: p_hyb as hybridization_probability returns it, a probability; whether the
\* selected pair is hybridized; Params['probablity_oversampling_factor'].
PHybArgs ==
    [p_hyb : {<<k, 4>> : k \in 0 .. 4},
     is_hybridized : BOOLEAN,
     oversampling : {<<0, 1>>, <<1, 2>>, <<1, 1>>, <<2, 1>>, <<5, 1>>}]

\* step: "if is_hybridized and oversampling: p_hyb = 1 - oversampling*(1-p_hyb)"; a
\* number is true when it is not 0.
oversampled_p_hyb(a) ==
    IF a.is_hybridized /\ a.oversampling[1] # 0
    THEN LET p == a.p_hyb
             o == a.oversampling
         IN  \* 1 - (o1/o2) * ((p2 - p1)/p2)
             <<o[2] * p[2] - o[1] * (p[2] - p[1]), o[2] * p[2]>>
    ELSE a.p_hyb

(***************************************************************************)
(* The corrections of hybridization_energy.  A neighbour of a domain, on   *)
(* its 5' or its 3' side, is absent ("none"), present and unpaired         *)
(* ("free") or present and paired ("hybridized").                          *)
(***************************************************************************)
NeighborStates == {"none", "free", "hybridized"}

MaxEnergyCalls == 2

\* Domain.Complex: the complex that owns the domain, None for a domain of a free strand.
DomainComplexes == {None, 1, 2}

\* The arguments domain1, domain2 of hybridization_energy: two domains of complementary
\* species, the neighbours of the duplex and the complexes of the two domains.
EnergyArgs ==
    {[d1_Name |-> n, d2_Name |-> IF n = Upper[n] THEN Lower[n] ELSE Upper[n],
      d1_5p |-> nb[1], d1_3p |-> nb[2], d2_5p |-> nb[3], d2_3p |-> nb[4],
      d1_Complex |-> c[1], d2_Complex |-> c[2]] :
        n \in SimNames,
        nb \in NeighborStates \X NeighborStates \X NeighborStates \X NeighborStates,
        c \in DomainComplexes \X DomainComplexes}

\* The arguments of the calls that follow the first one: every pair of species, with the
\* four neighbours in one state and domain1 in a complex.
FurtherEnergyArgs ==
    {[d1_Name |-> n, d2_Name |-> IF n = Upper[n] THEN Lower[n] ELSE Upper[n],
      d1_5p |-> nb, d1_3p |-> nb, d2_5p |-> nb, d2_3p |-> nb,
      d1_Complex |-> 1, d2_Complex |-> c] :
        n \in SimNames, nb \in NeighborStates, c \in DomainComplexes}

\* hybridization_dH_dS(domain1.Sequence, domain2.Sequence): the standard (deltaH, deltaS) of
\* the nearest-neighbour model, a function of the two sequences.
hybridization_dH_dS(name1, name2) ==
    IF Upper[name1] = "A" THEN <<-50, -140>> ELSE <<-60, -170>>

\* The key of the memo Domain_dHdS: domain1.Name.
Domain_dHdS_key(name) == name

\* "if domain1.Complex == domain2.Complex: deltaS_corr += 4"; None == None is True.
intra_complex_corr(a) == IF a.d1_Complex = a.d2_Complex THEN 4 ELSE 0

\* bool(n) of a neighbour, as a summand.
exists(n) == IF n # "none" THEN 1 ELSE 0

\* domain5p_is_hybridized() / domain3p_is_hybridized().
neighbor_is_hybridized(n) == n = "hybridized"

\* "sum(bool(n) for n in (domain1.domain5p(), domain2.domain3p(),
\*                        domain2.domain5p() or domain1.domain3p()))":
\* a tuple of three, whose third element is the first of the two that exists.
N_neighbors(a) ==
    exists(a.d1_5p) + exists(a.d2_3p)
      + exists(IF a.d2_5p # "none" THEN a.d2_5p ELSE a.d1_3p)

\* "domain1.domain5p_is_hybridized() or domain2.domain3p_is_hybridized() +
\*  domain2.domain5p_is_hybridized() or domain1.domain3p_is_hybridized()":
\* + binds tighter than or, so this is  x or (y + z) or w,  with True counting as 1.
N_stacking(a) ==
    LET b(n) == IF neighbor_is_hybridized(n) THEN 1 ELSE 0
    IN  IF neighbor_is_hybridized(a.d1_5p) THEN 1
        ELSE IF b(a.d2_3p) + b(a.d2_5p) # 0 THEN b(a.d2_3p) + b(a.d2_5p)
        ELSE b(a.d1_3p)

\* hybridization_energy: the corrections it returns, and their value before the stacking
\* term is added.  (The standard deltaH, deltaS come from hybridization_dH_dS.)
hybridization_energy(a, dHdS) ==
    LET neighbors == [deltaH_corr |-> -3 * N_neighbors(a), deltaS_corr |-> -10 * N_neighbors(a)]
        stacked == [deltaH_corr |-> neighbors.deltaH_corr - 7 * N_stacking(a),
                    deltaS_corr |-> neighbors.deltaS_corr - 20 * N_stacking(a)]
    IN  [deltaH |-> dHdS[1] + stacked.deltaH_corr,
         deltaS |-> dHdS[2] + stacked.deltaS_corr + intra_complex_corr(a),
         N_neighbors |-> N_neighbors(a),
         N_stacking |-> N_stacking(a),
         before_stacking |-> neighbors,
         deltaH_corr |-> stacked.deltaH_corr,
         deltaS_corr |-> stacked.deltaS_corr + intra_complex_corr(a)]


(***************************************************************************)
(* -----------------------------  COMPLEX  ------------------------------- *)
(* One Complex object (graph_sim_nx/complex.py) and the strands that can   *)
(* be added to it.  The debug attributes (_historic_strands,               *)
(* _historic_fingerprints, N_strand_changes, history) are not part of the  *)
(* model.                                                                  *)
(***************************************************************************)

\* The strands: s1 = sA<A>, s2 = sA<A> (a second copy of the species), s3 = sB<a, a>.
\* Domains 1, 2 are the A of s1, s2; domains 3, 4 are the two a of s3 (5' to 3').
CxStrands == 1 .. 3
CxDomains == 1 .. 4
StrandName == <<"sA", "sA", "sB">>
StrandDomains == << <<1>>, <<2>>, <<3, 4>> >>
DomName == <<"A", "A", "a", "a">>
DomStrand == <<1, 2, 3, 3>>
StrandNames == {"sA", "sB"}
DomNames == {"A", "a"}

\* Edge keys of the interaction graph.
PHOSPHATEBACKBONE_INTERACTION == "backbone"
HYBRIDIZATION_INTERACTION == "hybridization"
STACKING_INTERACTION == "stacking"

\* "self" and "some other complex" as values of strand.complex (None is 0).
Self == 1
OtherComplex == 2

\* The Complex objects that exist side by side where strand ownership is followed.
ComplexIds == 1 .. 2

\* Ordered pairs of domains with complementary species: arguments of the hybridization mutators.
ComplementaryPairs ==
    {pr \in CxDomains \X CxDomains :
        pr[1] # pr[2] /\ {DomName[pr[1]], DomName[pr[2]]} = {"A", "a"}}

\* The domains of a strand, and of a set of strands.
DomainsOfStrand(s) == {StrandDomains[s][i] : i \in 1 .. Len(StrandDomains[s])}
DomainsOfStrands(S) == UNION {DomainsOfStrand(s) : s \in S}

\* The strand as a (linear) graph of domains: backbone edges between adjacent domains,
\* in both directions once it is converted to a MultiDiGraph.
StrandEdges(s) ==
    UNION { {<<StrandDomains[s][i], StrandDomains[s][i + 1], PHOSPHATEBACKBONE_INTERACTION>>,
             <<StrandDomains[s][i + 1], StrandDomains[s][i], PHOSPHATEBACKBONE_INTERACTION>>}
          : i \in 1 .. Len(StrandDomains[s]) - 1 }

\* collections.Counter: a function on the keys that are present; a missing key counts 0.
CounterGet(cnt, k) == IF k \in DOMAIN cnt THEN cnt[k] ELSE 0
CounterAdd(cnt, k, n) ==
    [x \in (DOMAIN cnt) \cup {k} |-> IF x = k THEN CounterGet(cnt, k) + n ELSE cnt[x]]
CounterDel(cnt, k) == [x \in (DOMAIN cnt) \ {k} |-> cnt[x]]
\* "depleted = [k for k, count in counter.items() if count < 1]; del counter[k]"
CounterDropDepleted(cnt) == [x \in {k \in DOMAIN cnt : cnt[k] >= 1} |-> cnt[x]]

\* A cached fingerprint: <<>> is None, <<v>> holds v.
IsNone(cache) == cache = <<>>
\* "not cache" for the set-valued caches: None or the empty frozenset.
IsFalsySet(cache) == cache = <<>> \/ cache = <<{}>>

\* Results of a method call: the object after the call, the exception raised ("none" if
\* it returned), the value returned.
Returned(c, v) == [c |-> c, err |-> "none", val |-> v]
Raised(c, e) == [c |-> c, err |-> e, val |-> <<>>]

\* Complex.__init__(strands=S): strands, name indices, counters and the initial graph.
NewComplex(S) ==
    [ strands |-> S,
      strands_by_name |-> [n \in StrandNames |-> {s \in S : StrandName[s] = n}],
      strand_species_counter |->
          [n \in {StrandName[s] : s \in S} |-> Cardinality({s \in S : StrandName[s] = n})],
      domains_by_name |-> [n \in DomNames |-> {d \in DomainsOfStrands(S) : DomName[d] = n}],
      domain_species_counter |->
          [n \in {DomName[d] : d \in DomainsOfStrands(S)} |->
              Cardinality({d \in DomainsOfStrands(S) : DomName[d] = n})],
      hybridized_pairs |-> {},
      stacked_pairs |-> {},
      nodes |-> DomainsOfStrands(S),
      edges |-> UNION {StrandEdges(s) : s \in S},
      _state_fingerprint |-> <<>>,
      _strands_fingerprint |-> <<>>,
      _hybridization_fingerprint |-> <<>>,
      _stacking_fingerprint |-> <<>>,
      icid_radius |-> 5,
      icid_use_instance |-> (FALSE \/ TRUE),
      strand_complex |-> [s \in CxStrands |-> IF s \in S THEN Self ELSE None] ]

\* Domain.domain_strand_specie: (strand species, domain species).
domain_strand_specie(d) == <<StrandName[DomStrand[d]], DomName[d]>>

\* The domains within r hops of d along the edges of the graph.
RECURSIVE WithinHops(_, _, _)
WithinHops(c, front, r) ==
    IF r = 0 THEN front
    ELSE LET next == front \cup {e[2] : e \in {e \in c.edges : e[1] \in front}}
         IN  IF next = front THEN front ELSE WithinHops(c, next, r - 1)

\* Number of edges of each kind that leave the neighbourhood's domains of a given species:
\* the local observations (edge kind, neighbour species) folded into one number.
RECURSIVE SumOver(_, _)
SumOver(S, f) ==
    IF S = {} THEN 0
    ELSE LET x == CHOOSE y \in S : TRUE IN f[x] + SumOver(S \ {x}, f)

KindCode(k) == IF k = PHOSPHATEBACKBONE_INTERACTION THEN 1
               ELSE IF k = HYBRIDIZATION_INTERACTION THEN 7 ELSE 49
NameCode(n) == IF n = "A" THEN 1 ELSE 3

\* Domain.in_complex_identifier: the domain instance when icid_use_instance is set;
\* otherwise 0 for the only domain of its species, else a number computed from the
\* (edge kind, neighbour species) observations within icid_radius hops.
in_complex_identifier(c, d) ==
    IF c.icid_use_instance THEN d
    ELSE IF CounterGet(c.domain_species_counter, DomName[d]) < 2 THEN 0
    ELSE LET hood == WithinHops(c, {d}, c.icid_radius)
             obs == {e \in c.edges : e[1] \in hood}
         IN  1 + SumOver(obs, [e \in obs |-> KindCode(e[3]) * NameCode(DomName[e[2]])])

\* "nonzero_icids", and whether two domains of the graph share one.
NonzeroIcidDomains(c) == {d \in c.nodes : in_complex_identifier(c, d) # 0}
HasDuplicateIcids(c) ==
    \E d1, d2 \in NonzeroIcidDomains(c) :
        d1 # d2 /\ in_complex_identifier(c, d1) = in_complex_identifier(c, d2)

\* adjust_icid_radius_or_use_instance that doubles icid_radius once and returns.
adjust_icid_radius_once(c, n_tries) == [c EXCEPT !.icid_radius = @ * 2]

\* Complex.adjust_icid_radius_or_use_instance: the while/else loop over n_tries.
RECURSIVE adjust_icid_radius_or_use_instance(_, _)
adjust_icid_radius_or_use_instance(c, n_tries) ==
    IF n_tries > 0
    THEN LET c1 == [c EXCEPT !.icid_radius = @ * 2]
         IN  IF ~HasDuplicateIcids(c1) THEN c1
             ELSE adjust_icid_radius_or_use_instance(c1, n_tries - 1)
    ELSE [c EXCEPT !.icid_use_instance = TRUE]

\* Complex.strands_species_count, with its two assertions.
strands_species_count(c) ==
    LET species_counts ==
            [n \in {StrandName[s] : s \in c.strands} |->
                Cardinality({s \in c.strands : StrandName[s] = n})]
        doms == DomainsOfStrands(c.strands)
        domain_species_counts ==
            [n \in {DomName[d] : d \in doms} |-> Cardinality({d \in doms : DomName[d] = n})]
        c1 == [c EXCEPT !.strand_species_counter = CounterDropDepleted(@)]
        c2 == [c1 EXCEPT !.domain_species_counter = CounterDropDepleted(@)]
    IN  IF species_counts # c1.strand_species_counter
        THEN Raised(c1, "AssertionError: strands_species_count")
        ELSE IF domain_species_counts # c2.domain_species_counter
             THEN Raised(c2, "AssertionError: strands_species_count")
        ELSE Returned(c2, {<<n, species_counts[n]>> : n \in DOMAIN species_counts})

\* Complex.strands_fingerprint
strands_fingerprint(c) ==
    IF IsFalsySet(c._strands_fingerprint)
    THEN LET r == strands_species_count(c)
         IN  IF r.err # "none" THEN r
             ELSE Returned([r.c EXCEPT !._strands_fingerprint = <<r.val>>], r.val)
    ELSE Returned(c, c._strands_fingerprint[1])

\* Complex.hybridization_edges, with its assertion.
hybridization_edges(c) ==
    LET edges == {<<e[1], e[2]>> : e \in {e \in c.edges : e[3] = HYBRIDIZATION_INTERACTION}}
    IN  IF {{tup[1], tup[2]} : tup \in edges} = c.hybridized_pairs
        THEN Returned(c, edges)
        ELSE Raised(c, "AssertionError: hybridization_edges")

\* Complex.hybridization_fingerprint
hybridization_fingerprint(c) ==
    IF IsFalsySet(c._hybridization_fingerprint)
    THEN LET r == hybridization_edges(c)
             edgesfs == {{<<domain_strand_specie(d), in_complex_identifier(c, d)>> :
                            d \in {edge[1], edge[2]}} : edge \in r.val}
         IN  IF r.err # "none" THEN r
             ELSE Returned([c EXCEPT !._hybridization_fingerprint = <<edgesfs>>], edgesfs)
    ELSE Returned(c, c._hybridization_fingerprint[1])

\* Complex.stacking_edges, with its assertion.
stacking_edges(c) ==
    LET stack_edges == {<<e[1], e[2]>> : e \in {e \in c.edges : e[3] = STACKING_INTERACTION}}
    IN  IF stack_edges = c.stacked_pairs
        THEN Returned(c, stack_edges)
        ELSE Raised(c, "AssertionError: stacking_edges")

\* Complex.stacking_fingerprint
stacking_fingerprint(c) ==
    IF IsFalsySet(c._stacking_fingerprint)
    THEN LET r == stacking_edges(c)
             edgesfs == {<< <<domain_strand_specie(edge[1]), in_complex_identifier(c, edge[1])>>,
                            <<domain_strand_specie(edge[2]), in_complex_identifier(c, edge[2])>> >>
                         : edge \in r.val}
         IN  IF r.err # "none" THEN r
             ELSE IF Cardinality(edgesfs) # Cardinality(r.val)
                  THEN Raised(c, "AssertionError: stacking_fingerprint")
             ELSE Returned([c EXCEPT !._stacking_fingerprint = <<edgesfs>>], edgesfs)
    ELSE Returned(c, c._stacking_fingerprint[1])

\* Complex.state_fingerprint, from "if not self._state_fingerprint" on:
\* hash((strands, hybridization, stacking)); the three parts are evaluated in this order
\* and each caches its result.
state_fingerprint_stacking(r1, r2, r3) ==
    IF r3.err # "none" THEN r3
    ELSE Returned([r3.c EXCEPT !._state_fingerprint = << <<r1.val, r2.val, r3.val>> >>],
                  <<r1.val, r2.val, r3.val>>)

state_fingerprint_hybridization(r1, r2) ==
    IF r2.err # "none" THEN r2
    ELSE state_fingerprint_stacking(r1, r2, stacking_fingerprint(r2.c))

state_fingerprint_strands(r1) ==
    IF r1.err # "none" THEN r1
    ELSE state_fingerprint_hybridization(r1, hybridization_fingerprint(r1.c))

state_fingerprint_cached(c0) ==
    IF IsNone(c0._state_fingerprint)
    THEN state_fingerprint_strands(strands_fingerprint(c0))
    ELSE Returned(c0, c0._state_fingerprint[1])

\* Complex.state_fingerprint: the check for duplicate icids, then the cached value or
\* its computation.
state_fingerprint(c) ==
    state_fingerprint_cached(IF HasDuplicateIcids(c)
                             THEN adjust_icid_radius_or_use_instance(c, 3) ELSE c)

\* Complex.reset_state_fingerprint with its default arguments (reset_stacking=False).
reset_state_fingerprint(c) ==
    [c EXCEPT !._state_fingerprint = <<>>,
              !._strands_fingerprint = <<>>,
              !._hybridization_fingerprint = <<>>]


\* The part of add_strand / add_strands that registers one strand: name index, counter,
\* back-pointer, domains, and (update_graph) the strand's nodes and backbone edges.
RegisterStrand(c, strand, update_graph) ==
    LET doms == DomainsOfStrand(strand)
        c1 == [c EXCEPT
                 !.strands_by_name[StrandName[strand]] = @ \cup {strand},
                 !.strand_species_counter = CounterAdd(@, StrandName[strand], 1),
                 !.strand_complex[strand] = Self,
                 !.domains_by_name = [n \in DomNames |-> @[n] \cup {d \in doms : DomName[d] = n}],
                 !.domain_species_counter =
                     [n \in (DOMAIN @) \cup {DomName[d] : d \in doms} |->
                         CounterGet(@, n) + Cardinality({d \in doms : DomName[d] = n})]]
    IN  IF update_graph
        THEN [c1 EXCEPT !.nodes = @ \cup doms, !.edges = @ \cup StrandEdges(strand)]
        ELSE c1

\* Complex.add_strand (the method under the decorator).
add_strand(c, strand, update_graph) ==
    LET c1 == [c EXCEPT !.strands = @ \cup {strand}]
    IN  Returned(reset_state_fingerprint(RegisterStrand(c1, strand, update_graph)), None)

\* The loop over strand.domains in remove_strand / remove_strands, from position i on.
\* removed = <<hybridization pairs, stacking pairs>> collected so far.
RECURSIVE UnregisterDomains(_, _, _, _, _)
UnregisterDomains(c, doms, i, update_edge_pairs, removed) ==
    IF i > Len(doms) THEN Returned(c, removed)
    ELSE LET domain == doms[i]
             name == DomName[domain]
         IN  IF domain \notin c.domains_by_name[name] THEN Raised(c, "KeyError")
             ELSE LET n == CounterGet(c.domain_species_counter, name) - 1
                      c1 == [c EXCEPT
                               !.domains_by_name[name] = @ \ {domain},
                               !.domain_species_counter =
                                   IF n < 1 THEN CounterDel(@, name) ELSE CounterAdd(@, name, -1)]
                      obsolete_hybridization_pairs == {pair \in c1.hybridized_pairs : domain \in pair}
                      obsolete_stacking_pairs ==
                          {pair \in c1.stacked_pairs : domain = pair[1] \/ domain = pair[2]}
                      c2 == IF update_edge_pairs
                            THEN [c1 EXCEPT !.hybridized_pairs = @ \ obsolete_hybridization_pairs,
                                            !.stacked_pairs = @ \ obsolete_stacking_pairs]
                            ELSE c1
                      removed2 == IF update_edge_pairs
                                  THEN <<removed[1] \cup obsolete_hybridization_pairs,
                                         removed[2] \cup obsolete_stacking_pairs>>
                                  ELSE removed
                  IN  UnregisterDomains(c2, doms, i + 1, update_edge_pairs, removed2)

\* nx remove_nodes_from(strand): the strand's domains and every edge at them.
RemoveNodes(c, strand) ==
    LET doms == DomainsOfStrand(strand)
    IN  [c EXCEPT !.nodes = @ \ doms,
                  !.edges = {e \in @ : e[1] \notin doms /\ e[2] \notin doms}]

\* UnregisterStrand that leaves the strand in strands_by_name.
UnregisterStrand_keeping_name_index(c, strand, update_graph, update_edge_pairs, removed, del_when_zero) ==
    LET name == StrandName[strand]
        n == CounterGet(c.strand_species_counter, name) - 1
        c1 == [c EXCEPT
                 !.strand_species_counter =
                     IF (del_when_zero /\ n = 0) \/ (~del_when_zero /\ n < 1)
                     THEN CounterDel(@, name) ELSE CounterAdd(@, name, -1),
                 !.strand_complex[strand] = IF @ = Self THEN None ELSE @]
        r == UnregisterDomains(c1, StrandDomains[strand], 1, update_edge_pairs, removed)
    IN  IF r.err # "none" THEN r
        ELSE IF update_graph THEN Returned(RemoveNodes(r.c, strand), r.val)
        ELSE r

\* The part of remove_strand / remove_strands from the name index on: index, counter
\* (remove_strand deletes the entry when it is == 0, remove_strands when it is < 1),
\* back-pointer, domains, graph.
UnregisterStrand(c, strand, update_graph, update_edge_pairs, removed, del_when_zero) ==
    LET name == StrandName[strand]
        n == CounterGet(c.strand_species_counter, name) - 1
        c1 == [c EXCEPT
                 !.strands_by_name[name] = @ \ {strand},
                 !.strand_species_counter =
                     IF (del_when_zero /\ n = 0) \/ (~del_when_zero /\ n < 1)
                     THEN CounterDel(@, name) ELSE CounterAdd(@, name, -1),
                 !.strand_complex[strand] = IF @ = Self THEN None ELSE @]
        r == UnregisterDomains(c1, StrandDomains[strand], 1, update_edge_pairs, removed)
    IN  IF r.err # "none" THEN r
        ELSE IF update_graph THEN Returned(RemoveNodes(r.c, strand), r.val)
        ELSE r

\* remove_strand that decrements the species counter before "self.strands.remove(strand)".
remove_strand_counts_first(c, strand, update_graph, update_edge_pairs) ==
    LET c0 == [c EXCEPT !.strand_species_counter = CounterAdd(@, StrandName[strand], -1)]
    IN  IF strand \notin c0.strands THEN Raised(c0, "KeyError")
        ELSE LET c1 == [c EXCEPT !.strands = @ \ {strand}]
             IN  IF strand \notin c1.strands_by_name[StrandName[strand]]
                 THEN Raised(c1, "KeyError")
                 ELSE UnregisterStrand(c1, strand, update_graph, update_edge_pairs,
                                       <<{}, {}>>, TRUE)

\* Complex.remove_strand (the method under the decorator).
remove_strand(c, strand, update_graph, update_edge_pairs) ==
    IF strand \notin c.strands THEN Raised(c, "KeyError")
    ELSE LET c1 == [c EXCEPT !.strands = @ \ {strand}]
         IN  IF strand \notin c1.strands_by_name[StrandName[strand]] THEN Raised(c1, "KeyError")
             ELSE UnregisterStrand(c1, strand, update_graph, update_edge_pairs,
                                   <<{}, {}>>, TRUE)

\* Complex.add_strands: the loop over the strands (in the order given), then "strands |=".
RECURSIVE add_strands_loop(_, _, _, _)
add_strands_loop(c, order, i, update_graph) ==
    IF i > Len(order) THEN c
    ELSE add_strands_loop(RegisterStrand(c, order[i], update_graph), order, i + 1, update_graph)

add_strands(c, order, update_graph) ==
    LET c1 == add_strands_loop(c, order, 1, update_graph)
    IN  Returned([c1 EXCEPT !.strands = @ \cup {order[i] : i \in 1 .. Len(order)}], None)

\* Complex.remove_strands: the loop over the strands (in the order given), then "strands -=".
RECURSIVE remove_strands_loop(_, _, _, _, _, _)
remove_strands_loop(c, order, i, update_graph, update_edge_pairs, removed) ==
    IF i > Len(order) THEN Returned(c, removed)
    ELSE LET strand == order[i]
         IN  IF strand \notin c.strands_by_name[StrandName[strand]] THEN Raised(c, "KeyError")
             ELSE LET r == UnregisterStrand(c, strand, update_graph, update_edge_pairs,
                                            removed, FALSE)
                  IN  IF r.err # "none" THEN r
                      ELSE remove_strands_loop(r.c, order, i + 1, update_graph,
                                               update_edge_pairs, r.val)

remove_strands(c, order, update_graph, update_edge_pairs) ==
    LET r == remove_strands_loop(c, order, 1, update_graph, update_edge_pairs, <<{}, {}>>)
    IN  IF r.err # "none" THEN r
        ELSE Returned([r.c EXCEPT !.strands = @ \ {order[i] : i \in 1 .. Len(order)}], r.val)

\* add_hybridization_edge that records the pair without adding the graph edges.
add_hybridization_edge_pairs_only(c, domain_pair) ==
    Returned([c EXCEPT
                !.hybridized_pairs = @ \cup {{domain_pair[1], domain_pair[2]}},
                !._hybridization_fingerprint = <<>>,
                !._state_fingerprint = <<>>], None)

\* Complex.add_hybridization_edge (the method under the decorator).
add_hybridization_edge(c, domain_pair) ==
    LET domain1 == domain_pair[1]
        domain2 == domain_pair[2]
    IN  Returned([c EXCEPT
                    !.nodes = @ \cup {domain1, domain2},
                    !.edges = @ \cup {<<domain1, domain2, HYBRIDIZATION_INTERACTION>>,
                                      <<domain2, domain1, HYBRIDIZATION_INTERACTION>>},
                    !.hybridized_pairs = @ \cup {{domain1, domain2}},
                    !._hybridization_fingerprint = <<>>,
                    !._state_fingerprint = <<>>], None)

\* nx remove_edge(u, v, key): raises when the edge is absent.
RemoveEdge(c, u, v, key) ==
    IF <<u, v, key>> \in c.edges
    THEN Returned([c EXCEPT !.edges = @ \ {<<u, v, key>>}], None)
    ELSE Raised(c, "NetworkXError")

\* remove_hybridization_edge without the "if self.is_directed()" removal of the reverse edge.
remove_hybridization_edge_one_direction(c, domain_pair) ==
    LET domain1 == domain_pair[1]
        domain2 == domain_pair[2]
        r1 == RemoveEdge(c, domain1, domain2, HYBRIDIZATION_INTERACTION)
    IN  IF r1.err # "none" THEN r1
        ELSE IF {domain1, domain2} \notin r1.c.hybridized_pairs THEN Raised(r1.c, "KeyError")
        ELSE Returned([r1.c EXCEPT
                         !.hybridized_pairs = @ \ {{domain1, domain2}},
                         !._hybridization_fingerprint = <<>>,
                         !._state_fingerprint = <<>>], None)

\* Complex.remove_hybridization_edge (the method under the decorator).
remove_hybridization_edge(c, domain_pair) ==
    LET domain1 == domain_pair[1]
        domain2 == domain_pair[2]
        r1 == RemoveEdge(c, domain1, domain2, HYBRIDIZATION_INTERACTION)
        r2 == RemoveEdge(r1.c, domain2, domain1, HYBRIDIZATION_INTERACTION)
    IN  IF r1.err # "none" THEN r1
        ELSE IF r2.err # "none" THEN r2
        ELSE IF {domain1, domain2} \notin r2.c.hybridized_pairs THEN Raised(r2.c, "KeyError")
        ELSE Returned([r2.c EXCEPT
                         !.hybridized_pairs = @ \ {{domain1, domain2}},
                         !._hybridization_fingerprint = <<>>,
                         !._state_fingerprint = <<>>], None)

\* add_stacking_edge with the edge of the second helix laid from its 5' end to its 3' end.
add_stacking_edge_second_reversed(c, stacking_pair) ==
    LET h1end3p == stacking_pair[1][1]
        h2end5p == stacking_pair[1][2]
        h2end3p == stacking_pair[2][1]
        h1end5p == stacking_pair[2][2]
    IN  Returned([c EXCEPT
                    !.nodes = @ \cup {h1end3p, h1end5p, h2end3p, h2end5p},
                    !.edges = @ \cup {<<h1end3p, h1end5p, STACKING_INTERACTION>>,
                                      <<h2end5p, h2end3p, STACKING_INTERACTION>>},
                    !.stacked_pairs = @ \cup {<<h1end3p, h1end5p>>, <<h2end5p, h2end3p>>},
                    !._stacking_fingerprint = <<>>,
                    !._state_fingerprint = <<>>], None)

\* Complex.add_stacking_edge.  stacking_pair = <<<<h1end3p, h2end5p>>, <<h2end3p, h1end5p>>>>,
\* each end given by its domain.
add_stacking_edge(c, stacking_pair) ==
    LET h1end3p == stacking_pair[1][1]
        h2end5p == stacking_pair[1][2]
        h2end3p == stacking_pair[2][1]
        h1end5p == stacking_pair[2][2]
    IN  Returned([c EXCEPT
                    !.nodes = @ \cup {h1end3p, h1end5p, h2end3p, h2end5p},
                    !.edges = @ \cup {<<h1end3p, h1end5p, STACKING_INTERACTION>>,
                                      <<h2end3p, h2end5p, STACKING_INTERACTION>>},
                    !.stacked_pairs = @ \cup {<<h1end3p, h1end5p>>, <<h2end3p, h2end5p>>},
                    !._stacking_fingerprint = <<>>,
                    !._state_fingerprint = <<>>], None)

\* Complex.remove_stacking_edge.
remove_stacking_edge(c, stacking_pair) ==
    LET h1end3p == stacking_pair[1][1]
        h2end5p == stacking_pair[1][2]
        h2end3p == stacking_pair[2][1]
        h1end5p == stacking_pair[2][2]
        r1 == RemoveEdge(c, h1end3p, h1end5p, STACKING_INTERACTION)
        r2 == RemoveEdge(r1.c, h2end3p, h2end5p, STACKING_INTERACTION)
        c3 == [r2.c EXCEPT !.stacked_pairs = @ \ {<<h1end3p, h1end5p>>}]
    IN  IF r1.err # "none" THEN r1
        ELSE IF r2.err # "none" THEN r2
        ELSE IF <<h1end3p, h1end5p>> \notin r2.c.stacked_pairs THEN Raised(r2.c, "KeyError")
        ELSE IF <<h2end3p, h2end5p>> \notin c3.stacked_pairs THEN Raised(c3, "KeyError")
        ELSE Returned([c3 EXCEPT
                         !.stacked_pairs = @ \ {<<h2end3p, h2end5p>>},
                         !._stacking_fingerprint = <<>>,
                         !._state_fingerprint = <<>>], None)


\* The method named op, without its decorator, applied to its arguments.
Method(c, op, arg) ==
    CASE op = "add_strand" -> add_strand(c, arg[1], arg[2])
      [] op = "remove_strand" -> remove_strand(c, arg[1], arg[2], arg[3])
      [] op = "add_strands" -> add_strands(c, arg[1], arg[2])
      [] op = "remove_strands" -> remove_strands(c, arg[1], arg[2], arg[3])
      [] op = "add_hybridization_edge" -> add_hybridization_edge(c, arg)
      [] op = "remove_hybridization_edge" -> remove_hybridization_edge(c, arg)
      [] op = "add_stacking_edge" -> add_stacking_edge(c, arg)
      [] op = "remove_stacking_edge" -> remove_stacking_edge(c, arg)

\* What a decorated call leaves: the object, the exception ("none" if it returned),
\* old_fingerprint and new_fingerprint (<<>> if the decorator did not get that far) and
\* the value returned.
Outcome(c, err, old, new, val) == [c |-> c, err |-> err, old |-> old, new |-> new, val |-> val]

\* state_should_change without its assertion: the decorator returns whatever the
\* fingerprints are.
state_should_change_unasserted(r0, r1, r2) ==
    IF r2.err # "none" THEN Outcome(r2.c, r2.err, <<r0.val>>, <<>>, r1.val)
    ELSE Outcome(r2.c, "none", <<r0.val>>, <<r2.val>>, r1.val)

\* state_should_change: "assert new_fingerprint != old_fingerprint; return ret".
state_should_change_assert(r0, r1, r2) ==
    IF r2.err # "none" THEN Outcome(r2.c, r2.err, <<r0.val>>, <<>>, r1.val)
    ELSE IF r2.val = r0.val
         THEN Outcome(r2.c, "AssertionError: state_should_change", <<r0.val>>, <<r2.val>>,
                      r1.val)
    ELSE Outcome(r2.c, "none", <<r0.val>>, <<r2.val>>, r1.val)

\* state_should_change: "self.reset_state_fingerprint();
\* new_fingerprint = self.state_fingerprint()", after the method.
state_should_change_new(r0, r1) ==
    IF r1.err # "none" THEN Outcome(r1.c, r1.err, <<r0.val>>, <<>>, <<>>)
    ELSE state_should_change_assert(r0, r1,
                                    state_fingerprint(reset_state_fingerprint(r1.c)))

\* state_should_change: "ret = method(self, *args, **kwargs)", after old_fingerprint.
state_should_change_method(r0, op, arg) ==
    IF r0.err # "none" THEN Outcome(r0.c, r0.err, <<>>, <<>>, <<>>)
    ELSE state_should_change_new(r0, Method(r0.c, op, arg))

\* The state_should_change decorator around the method named op.
state_should_change(c, op, arg) == state_should_change_method(state_fingerprint(c), op, arg)

\* Whether the graph is one connected component (edges taken undirected).
RECURSIVE ReachableFrom(_, _)
ReachableFrom(c, seen) ==
    LET next == seen \cup {e[2] : e \in {e \in c.edges : e[1] \in seen}}
                     \cup {e[1] : e \in {e \in c.edges : e[2] \in seen}}
    IN  IF next = seen THEN seen ELSE ReachableFrom(c, next)

IsConnected(c) ==
    c.nodes = {} \/ ReachableFrom(c, {CHOOSE d \in c.nodes : TRUE}) = c.nodes

\* Arguments of add_strands / remove_strands: the ways to iterate over a set of at most
\* MaxBatch strands.
MaxBatch == 2
StrandOrders ==
    UNION { {f \in [1 .. k -> CxStrands] : \A i, j \in 1 .. k : i # j => f[i] # f[j]}
          : k \in 0 .. MaxBatch }

\* Arguments of add_hybridization_edge: complementary domains of which neither is in
\* another hybridized pair (the pair itself may be present already).
HybridizationCandidates(c) ==
    {pr \in ComplementaryPairs :
        \A pair \in c.hybridized_pairs :
            pair = {pr[1], pr[2]} \/ (pr[1] \notin pair /\ pr[2] \notin pair)}

\* Stacking pairs <<<<p.end3p, q.end5p>>, <<s.end3p, r.end5p>>>> of the ends of two
\* duplexes {p, q} and {r, s} of complementary domains.
StackingPairs ==
    {sp \in (CxDomains \X CxDomains) \X (CxDomains \X CxDomains) :
        /\ sp[1] \in ComplementaryPairs
        /\ sp[2] \in ComplementaryPairs
        /\ {sp[1][1], sp[1][2]} \cap {sp[2][1], sp[2][2]} = {}}

\* The two directed stacking edges of a stacking pair: (h1end3p, h1end5p), (h2end3p, h2end5p).
StackingEdgesOf(sp) == {<<sp[1][1], sp[2][2]>>, <<sp[2][1], sp[1][2]>>}

\* Arguments of the stacking mutators: stacking pairs whose four domains are in the graph,
\* or of which an edge is present.
StackingCandidates(c) ==
    {sp \in StackingPairs :
        \/ {sp[1][1], sp[1][2], sp[2][1], sp[2][2]} \subseteq c.nodes
        \/ StackingEdgesOf(sp) \cap c.stacked_pairs # {}}

\* The calls a caller makes that keeps the graph in step with the strand set and pairs
\* only what is free (the way the simulation drives a Complex).
InProtocol(c, op, arg) ==
    CASE op = "add_strand" -> arg[1] \notin c.strands /\ arg[2]
      [] op = "remove_strand" -> arg[1] \in c.strands /\ arg[2] /\ arg[3]
      [] op = "add_strands" ->
            Len(arg[1]) > 0 /\ arg[2] /\ \A i \in 1 .. Len(arg[1]) : arg[1][i] \notin c.strands
      [] op = "remove_strands" ->
            /\ Len(arg[1]) > 0 /\ arg[2] /\ arg[3]
            /\ \A i \in 1 .. Len(arg[1]) : arg[1][i] \in c.strands
      [] op = "add_hybridization_edge" ->
            {arg[1], arg[2]} \subseteq c.nodes /\ {arg[1], arg[2]} \notin c.hybridized_pairs
      [] op = "remove_hybridization_edge" -> {arg[1], arg[2]} \in c.hybridized_pairs
      [] op = "add_stacking_edge" ->
            /\ arg[1][1] < arg[2][1]
            /\ {arg[1][1], arg[1][2], arg[2][1], arg[2][2]} \subseteq c.nodes
            /\ \A e \in c.stacked_pairs :
                  e[1] \notin {arg[1][1], arg[2][1]} /\ e[2] \notin {arg[1][2], arg[2][2]}
      [] op = "remove_stacking_edge" ->
            arg[1][1] < arg[2][1] /\ StackingEdgesOf(arg) \subseteq c.stacked_pairs

\* After the first call outside this protocol at most MaxFree calls are explored
\* (that call included).
MaxFree == 1

\* At most MaxCalls calls are made on one Complex.
MaxCalls == 4

\* At most MaxOwnCalls calls are made on the complexes that share strands.
MaxOwnCalls == 2


(***************************************************************************)
(* ------------------------------  STATE  -------------------------------- *)
(***************************************************************************)

VARIABLES
    Partner,                \* Domain.Partner, per domain (None or a domain)
    N_domains_hybridized,   \* Simulator.N_domains_hybridized
    N_strands_hybridized,   \* Simulator.N_strands_hybridized
    N_steps,                \* Simulator.N_steps
    N_changes,              \* Simulator.N_changes
    Stats_cache,            \* Simulator.Stats_cache: statstype -> list of snapshots
    Record_stats,           \* Simulator.Record_stats
    Timesampling_frequency, \* Simulator.Timesampling_frequency
    sim_pc,                 \* position in simulate(): "idle", "loop", "raised"
    n_done,                 \* simulate(): local n_done
    n_steps_max,            \* simulate(): argument n_steps_max
    sim_T,                  \* simulate(): argument T
    last_event,             \* what the last step() did: <<kind, domain1, domain2, draw>>
    fn_pc,                  \* the function under evaluation, or "idle"
    fn_in,                  \* its arguments
    fn_out,                 \* its result, once evaluated
    Domain_dHdS,            \* Simulator.Domain_dHdS: species -> standard (deltaH, deltaS)
    dH_dS_invocations,      \* the calls of hybridization_dH_dS made so far, in order
    n_energy_calls,         \* the number of calls of hybridization_energy made so far
    Strands,                \* Simulator.Strands: the strands of the tube
    Domain_pairs,           \* Simulator.Domain_pairs: species -> complementary species
    Outputstatsfiles,       \* Simulator.Outputstatsfiles: the stats types that have a file
    Files,                  \* the output files: statstype -> the lines written so far
    anneal,                 \* anneal(): its arguments and local T while it runs
    cx,                     \* the Complex object: its attributes as a record
    cx_err,                 \* the exception that ended the last call ("none": it returned)
    last,                   \* the last call on the Complex: method, arguments, the object
                            \* before the call, the fingerprints seen by the decorator
                            \* (old_fingerprint, new_fingerprint) and the return value
    n_calls,                \* number of calls made on the Complex
    n_free,                 \* number of calls since the caller left the protocol (0: it has not)
    cxs,                    \* several Complex objects side by side: complex id -> Complex
    owner,                  \* strand.complex of every strand: None or a complex id
    own_err,                \* the exception that ended the last call on one of them
    own_last,               \* the last call on one of them: <<complex id, method, arguments>>
    own_calls               \* number of calls made on them

simvars == <<Partner, N_domains_hybridized, N_strands_hybridized, N_steps, N_changes,
             Stats_cache, Record_stats, Timesampling_frequency, sim_pc, n_done,
             n_steps_max, sim_T, last_event, Strands, Domain_pairs, Outputstatsfiles,
             Files, anneal>>

\* What simulate() and step() leave alone: the tube and the configuration.
simconfig == <<Record_stats, Timesampling_frequency, Strands, Domain_pairs, Outputstatsfiles>>

cxvars == <<cx, cx_err, last, n_calls, n_free>>

ownvars == <<cxs, owner, own_err, own_last, own_calls>>

fnvars == <<fn_pc, fn_in, fn_out, Domain_dHdS, dH_dS_invocations, n_energy_calls>>

vars == <<simvars, cxvars, ownvars, fnvars>>

\* No function is under evaluation.
FnIdle ==
    /\ fn_pc = "idle"
    /\ fn_in = <<>>
    /\ fn_out = <<>>
    /\ Domain_dHdS = <<>>
    /\ dH_dS_invocations = <<>>
    /\ n_energy_calls = 0

\* No call has been made on the Complex yet.
NoCall == [op |-> "__init__", arg |-> <<>>, pre |-> NewComplex({}), old |-> <<>>,
           new |-> <<>>, val |-> <<>>]

\* The Complex machine at rest (while the simulator runs).
CxIdle ==
    /\ cx = NewComplex({})
    /\ cx_err = "none"
    /\ last = NoCall
    /\ n_calls = 0
    /\ n_free = 0

\* The complexes side by side at rest: none has a strand.
OwnIdle ==
    /\ cxs = [k \in ComplexIds |-> NewComplex({})]
    /\ owner = [s \in CxStrands |-> None]
    /\ own_err = "none"
    /\ own_last = <<None, "__init__", <<>>>>
    /\ own_calls = 0

\* No anneal() is running.
NoAnneal ==
    [pc |-> "none", T |-> 0, T_start |-> 0, T_finish |-> 0, delta_T |-> 0, n_steps_per_T |-> 0]

\* The simulator at rest (while the Complex is exercised).
SimIdle ==
    /\ Partner = [d \in SimDomains |-> None]
    /\ N_domains_hybridized = 0
    /\ N_strands_hybridized = 0
    /\ N_steps = 0
    /\ N_changes = 0
    /\ Stats_cache = [k \in Default_statstypes |-> <<>>]
    /\ Record_stats = FALSE
    /\ Timesampling_frequency = 1
    /\ sim_pc = "idle"
    /\ n_done = 0
    /\ n_steps_max = 0
    /\ sim_T = 0
    /\ last_event = <<"init", None, None, "undrawn">>
    /\ Strands = {}
    /\ Domain_pairs = <<>>
    /\ Outputstatsfiles = {}
    /\ Files = [k \in Default_statstypes |-> <<>>]
    /\ anneal = NoAnneal

(***************************************************************************)
(* ------------------------  SIMULATOR: actions  ------------------------- *)
(***************************************************************************)

\* The tubes: every non-empty set of strands.
Tubes == (SUBSET SimStrands) \ {{}}

\* Simulator.__init__(volume, strands, params, domain_pairs, outputstatsfiles).  When the
\* assertion on domain_pairs fails there is no simulator: sim_pc = "rejected".
SimInit ==
    /\ Strands \in Tubes
    /\ \E domain_pairs \in DomainPairsArgs :
          Domain_pairs = domain_pairs_or_default(domain_pairs, Strands)
    /\ IF domain_pairs_accepted(Domain_pairs)
       THEN /\ sim_pc = "idle"
            /\ Partner \in {P \in [SimDomains -> SimDomains \cup {None}] :
                               ConsistentPartner(P, Strands)}
            /\ Record_stats \in BOOLEAN
            /\ Timesampling_frequency \in {1, 2}
            /\ Outputstatsfiles \in OutputstatsfilesArgs
       ELSE /\ sim_pc = "rejected"
            /\ Partner = [d \in SimDomains |-> None]
            /\ Record_stats = TRUE
            /\ Timesampling_frequency = 1
            /\ Outputstatsfiles = {}
    /\ N_domains_hybridized = n_hybridized_domains(Partner, Strands)
    /\ N_strands_hybridized = n_hybridized_strands(Partner, Strands)
    /\ N_steps = 0
    /\ N_changes = 0
    /\ Stats_cache = [k \in Default_statstypes |-> <<>>]
    /\ Files = [k \in Default_statstypes |-> <<>>]
    /\ n_done = 0
    /\ n_steps_max = 0
    /\ sim_T = 0
    /\ last_event = <<"init", None, None, "undrawn">>
    /\ anneal = NoAnneal
    /\ CxIdle
    /\ OwnIdle
    /\ FnIdle

\* simulate() called by the user: entry, with the assertion on the hybridized-domain
\* counter.
SimulateBegin ==
    /\ sim_pc = "idle"
    /\ N_steps < MaxSteps
    /\ \E T \in Temperatures, n \in 1 .. MaxSteps :
          /\ N_steps + n <= MaxSteps
          /\ sim_T' = T
          /\ n_steps_max' = n
    /\ n_done' = 0
    /\ sim_pc' = IF n_hybridized_domains(Partner, Strands) = N_domains_hybridized
                 THEN "loop" ELSE "raised"
    /\ last_event' = <<"begin", None, None, "undrawn">>
    /\ UNCHANGED <<Partner, N_domains_hybridized, N_strands_hybridized, N_steps, N_changes,
                   Stats_cache, Files, anneal>>
    /\ UNCHANGED simconfig
    /\ UNCHANGED cxvars
    /\ UNCHANGED ownvars
    /\ UNCHANGED fnvars

\* AfterStep that tests N_steps before "self.N_steps += 1".
AfterStep_testing_before_increment(cf) ==
    /\ n_done' = n_done + 1
    /\ N_steps' = N_steps + 1
    /\ Stats_cache' =
          IF Record_stats /\ (N_steps % Timesampling_frequency = 0)
          THEN record_stats_snapshot(cf[1], sim_T, "timesampling",
                                     N_domains_hybridized', N_strands_hybridized', Strands)
          ELSE cf[1]
    /\ Files' = cf[2]

\* The tail of one iteration of the loop in simulate(), after step() returned with the
\* stats cache and the files as cf = <<cache, files>>.
AfterStep(cf) ==
    /\ n_done' = n_done + 1
    /\ N_steps' = N_steps + 1
    /\ Stats_cache' =
          IF Record_stats /\ ((N_steps + 1) % Timesampling_frequency = 0)
          THEN record_stats_snapshot(cf[1], sim_T, "timesampling",
                                     N_domains_hybridized', N_strands_hybridized', Strands)
          ELSE cf[1]
    /\ Files' = cf[2]

\* AfterMutation without the test of Record_stats.
AfterMutation_always_recording(ndh) ==
    call_Visualization_hook(
        record_stats_snapshot(Stats_cache, sim_T, "changesampling", ndh,
                              N_strands_hybridized, Strands),
        Files, Outputstatsfiles)

\* step(): after an accepted mutation, "if self.Record_stats: record_stats_snapshot(T)"
\* and the visualization hook.  ndh is the new N_domains_hybridized.
AfterMutation(ndh) ==
    call_Visualization_hook(
        IF Record_stats
        THEN record_stats_snapshot(Stats_cache, sim_T, "changesampling", ndh,
                                   N_strands_hybridized, Strands)
        ELSE Stats_cache,
        Files, Outputstatsfiles)

\* step(): "p_hyb < random.random()" (dice) in the words of the draw u = random.random().
Draw(dice) == IF dice THEN "u>p" ELSE "u<=p"

\* One iteration of simulate(): step(T) and the bookkeeping after it.
\* dice is the outcome of "p_hyb < random.random()".
SimulateStep ==
    /\ sim_pc = "loop"
    /\ n_done < n_steps_max
    /\ \E ev \in select_event_domains(Partner, Strands, Domain_pairs), dice \in BOOLEAN :
         LET domain1 == ev[1]
             domain2 == ev[2]
             is_hyb  == ev[3]
         IN
         IF domain2 = None
         THEN \* step returns at once
              /\ last_event' = <<"none", domain1, None, "undrawn">>
              /\ UNCHANGED <<Partner, N_domains_hybridized, N_strands_hybridized,
                             N_changes, sim_pc>>
              /\ AfterStep(<<Stats_cache, Files>>)
         ELSE IF ~(domain1 # domain2 /\ SimName[domain1] # SimName[domain2])
         THEN \* the assertion in step fails; simulate re-raises
              /\ sim_pc' = "raised"
              /\ last_event' = <<"assert", domain1, domain2, "undrawn">>
              /\ UNCHANGED <<Partner, N_domains_hybridized, N_strands_hybridized,
                             N_changes, N_steps, n_done, Stats_cache, Files>>
         ELSE IF dice /\ is_hyb
         THEN \* de-hybridize
              /\ Partner' = dehybridize(Partner, domain1, domain2)
              /\ N_changes' = N_changes + 1
              /\ N_domains_hybridized' = N_domains_hybridized_after("dehybridize", N_domains_hybridized)
              /\ UNCHANGED <<N_strands_hybridized, sim_pc>>
              /\ last_event' = <<"dehybridize", domain1, domain2, Draw(dice)>>
              /\ AfterStep(AfterMutation(N_domains_hybridized'))
         ELSE IF ~dice /\ ~is_hyb
         THEN \* hybridize
              /\ Partner' = hybridize(Partner, domain1, domain2)
              /\ N_changes' = N_changes + 1
              /\ N_domains_hybridized' = N_domains_hybridized_after("hybridize", N_domains_hybridized)
              /\ UNCHANGED <<N_strands_hybridized, sim_pc>>
              /\ last_event' = <<"hybridize", domain1, domain2, Draw(dice)>>
              /\ AfterStep(AfterMutation(N_domains_hybridized'))
         ELSE \* remains hybridized, or did not hybridize
              /\ last_event' = <<"keep", domain1, domain2, Draw(dice)>>
              /\ UNCHANGED <<Partner, N_domains_hybridized, N_strands_hybridized,
                             N_changes, sim_pc>>
              /\ AfterStep(<<Stats_cache, Files>>)
    /\ UNCHANGED <<n_steps_max, sim_T, anneal>>
    /\ UNCHANGED simconfig
    /\ UNCHANGED cxvars
    /\ UNCHANGED ownvars
    /\ UNCHANGED fnvars

\* simulate() called by the user: the loop is over; the closing assertion.
SimulateEnd ==
    /\ sim_pc = "loop"
    /\ n_done >= n_steps_max
    /\ anneal.pc # "loop"
    /\ sim_pc' = IF n_hybridized_domains(Partner, Strands) = N_domains_hybridized
                 THEN "idle" ELSE "raised"
    /\ last_event' = <<"end", None, None, "undrawn">>
    /\ UNCHANGED <<Partner, N_domains_hybridized, N_strands_hybridized, N_steps, N_changes,
                   Stats_cache, Files, n_done, n_steps_max, sim_T, anneal>>
    /\ UNCHANGED simconfig
    /\ UNCHANGED cxvars
    /\ UNCHANGED ownvars
    /\ UNCHANGED fnvars

\* anneal(T_start, T_finish, delta_T, n_steps_per_T): entry, "T = T_start" and the two
\* assertions on the schedule.  n_steps_per_T is not read before the assertions: a
\* rejected call is the same for every value of it.
AnnealBegin ==
    /\ sim_pc = "idle"
    /\ \E T_start \in Temperatures, T_finish \in Temperatures, delta_T \in DeltaTs :
          LET args == [pc |-> "raised", T |-> T_start, T_start |-> T_start,
                       T_finish |-> T_finish, delta_T |-> delta_T, n_steps_per_T |-> None]
          IN  IF anneal_accepts(T_start, T_finish, delta_T)
              THEN /\ \E n_steps_per_T \in 1 .. MaxSteps :
                         /\ N_steps + N_temperatures(T_start, T_finish, delta_T) * n_steps_per_T
                               <= MaxSteps
                         /\ anneal' = [args EXCEPT !.pc = "loop",
                                                   !.n_steps_per_T = n_steps_per_T]
                   /\ sim_pc' = "anneal"
                   /\ last_event' = <<"anneal", None, None, "undrawn">>
              ELSE /\ anneal' = args
                   /\ sim_pc' = "anneal_raised"
                   /\ last_event' = <<"anneal_assert", None, None, "undrawn">>
    /\ UNCHANGED <<Partner, N_domains_hybridized, N_strands_hybridized, N_steps, N_changes,
                   Stats_cache, Files, n_done, n_steps_max, sim_T>>
    /\ UNCHANGED simconfig
    /\ UNCHANGED cxvars
    /\ UNCHANGED ownvars
    /\ UNCHANGED fnvars

\* anneal() that simulates every temperature of the ramp at T_finish.
AnnealSimulate_at_T_finish ==
    /\ sim_pc = "anneal"
    /\ anneal_continues(anneal.T, anneal.T_finish, anneal.delta_T)
    /\ sim_T' = anneal.T_finish
    /\ n_steps_max' = anneal.n_steps_per_T
    /\ n_done' = 0
    /\ sim_pc' = IF n_hybridized_domains(Partner, Strands) = N_domains_hybridized
                 THEN "loop" ELSE "raised"
    /\ last_event' = <<"begin", None, None, "undrawn">>
    /\ UNCHANGED <<Partner, N_domains_hybridized, N_strands_hybridized, N_steps, N_changes,
                   Stats_cache, Files, anneal>>
    /\ UNCHANGED simconfig
    /\ UNCHANGED cxvars
    /\ UNCHANGED ownvars
    /\ UNCHANGED fnvars

\* anneal(): the while condition holds: "self.simulate(T, n_steps_per_T)" is entered
\* (with its opening assertion).
AnnealSimulate ==
    /\ sim_pc = "anneal"
    /\ anneal_continues(anneal.T, anneal.T_finish, anneal.delta_T)
    /\ sim_T' = anneal.T
    /\ n_steps_max' = anneal.n_steps_per_T
    /\ n_done' = 0
    /\ sim_pc' = IF n_hybridized_domains(Partner, Strands) = N_domains_hybridized
                 THEN "loop" ELSE "raised"
    /\ last_event' = <<"begin", None, None, "undrawn">>
    /\ UNCHANGED <<Partner, N_domains_hybridized, N_strands_hybridized, N_steps, N_changes,
                   Stats_cache, Files, anneal>>
    /\ UNCHANGED simconfig
    /\ UNCHANGED cxvars
    /\ UNCHANGED ownvars
    /\ UNCHANGED fnvars

\* anneal(): simulate() is over (its closing assertion); "T += delta_T;
\* self.save_stats_cache()".
AnnealSaveStats ==
    /\ sim_pc = "loop"
    /\ n_done >= n_steps_max
    /\ anneal.pc = "loop"
    /\ IF n_hybridized_domains(Partner, Strands) = N_domains_hybridized
       THEN /\ sim_pc' = "anneal"
            /\ anneal' = [anneal EXCEPT !.T = @ + anneal.delta_T]
            /\ \E cf \in {save_stats_cache(Stats_cache, Files, Outputstatsfiles)} :
                  /\ Stats_cache' = cf[1]
                  /\ Files' = cf[2]
            /\ last_event' = <<"save_stats_cache", None, None, "undrawn">>
       ELSE /\ sim_pc' = "raised"
            /\ last_event' = <<"end", None, None, "undrawn">>
            /\ UNCHANGED <<Stats_cache, Files, anneal>>
    /\ UNCHANGED <<Partner, N_domains_hybridized, N_strands_hybridized, N_steps, N_changes,
                   n_done, n_steps_max, sim_T>>
    /\ UNCHANGED simconfig
    /\ UNCHANGED cxvars
    /\ UNCHANGED ownvars
    /\ UNCHANGED fnvars

\* anneal(): the while condition fails: anneal returns.
AnnealReturn ==
    /\ sim_pc = "anneal"
    /\ ~ anneal_continues(anneal.T, anneal.T_finish, anneal.delta_T)
    /\ sim_pc' = "idle"
    /\ anneal' = NoAnneal
    /\ last_event' = <<"anneal_return", None, None, "undrawn">>
    /\ UNCHANGED <<Partner, N_domains_hybridized, N_strands_hybridized, N_steps, N_changes,
                   Stats_cache, Files, n_done, n_steps_max, sim_T>>
    /\ UNCHANGED simconfig
    /\ UNCHANGED cxvars
    /\ UNCHANGED ownvars
    /\ UNCHANGED fnvars

\* anneal(): simulate() is over; "T += delta_T; self.save_stats_cache()" where opening
\* or writing a file raises: the exception leaves anneal.
AnnealSaveStatsIOError ==
    /\ sim_pc = "loop"
    /\ n_done >= n_steps_max
    /\ anneal.pc = "loop"
    /\ n_hybridized_domains(Partner, Strands) = N_domains_hybridized
    /\ \E cf \in save_stats_cache_io_errors(Stats_cache, Files, Outputstatsfiles) :
          /\ Stats_cache' = cf[1]
          /\ Files' = cf[2]
    /\ anneal' = [anneal EXCEPT !.T = @ + anneal.delta_T, !.pc = "raised"]
    /\ sim_pc' = "io_raised"
    /\ last_event' = <<"io_error", None, None, "undrawn">>
    /\ UNCHANGED <<Partner, N_domains_hybridized, N_strands_hybridized, N_steps, N_changes,
                   n_done, n_steps_max, sim_T>>
    /\ UNCHANGED simconfig
    /\ UNCHANGED cxvars
    /\ UNCHANGED ownvars
    /\ UNCHANGED fnvars

\* save_stats_cache() called again by the user after an I/O error, and succeeding.  The
\* run is not followed beyond the retry (sim_pc = "saved").
SaveStatsCacheRetry ==
    /\ sim_pc = "io_raised"
    /\ \E cf \in {save_stats_cache(Stats_cache, Files, Outputstatsfiles)} :
          /\ Stats_cache' = cf[1]
          /\ Files' = cf[2]
    /\ anneal' = NoAnneal
    /\ sim_pc' = "saved"
    /\ last_event' = <<"save_retry", None, None, "undrawn">>
    /\ UNCHANGED <<Partner, N_domains_hybridized, N_strands_hybridized, N_steps, N_changes,
                   n_done, n_steps_max, sim_T>>
    /\ UNCHANGED simconfig
    /\ UNCHANGED cxvars
    /\ UNCHANGED ownvars
    /\ UNCHANGED fnvars

SimNext ==
    \/ SimulateBegin \/ SimulateStep \/ SimulateEnd
    \/ AnnealBegin \/ AnnealSimulate \/ AnnealSaveStats \/ AnnealReturn
    \/ AnnealSaveStatsIOError \/ SaveStatsCacheRetry

SpecSim == SimInit /\ [][SimNext]_vars

\* The simulator runs on: a call that has been entered is carried on until it returns or
\* raises (simulate and anneal are loops of one thread).
SpecSimFair == SpecSim /\ WF_vars(SimNext)

(***************************************************************************)
(* -------------------------  COMPLEX: actions  -------------------------- *)
(***************************************************************************)

\* One call of a decorated method by the caller.
Call(op, arg) ==
    /\ n_calls < MaxCalls
    /\ (n_free = 0 /\ InProtocol(cx, op, arg)) \/ n_free < MaxFree
    /\ \E r \in {state_should_change(cx, op, arg)} :
          /\ cx' = r.c
          /\ cx_err' = r.err
          /\ last' = [op |-> op, arg |-> arg, pre |-> cx, old |-> r.old, new |-> r.new,
                      val |-> r.val]
    /\ n_calls' = n_calls + 1
    /\ n_free' = IF n_free = 0 /\ InProtocol(cx, op, arg) THEN 0 ELSE n_free + 1
    /\ UNCHANGED simvars
    /\ UNCHANGED ownvars
    /\ UNCHANGED fnvars

CxInit ==
    /\ cx \in {NewComplex(S) : S \in SUBSET CxStrands}
    /\ n_calls = 0
    /\ cx_err = "none"
    /\ last = NoCall
    /\ SimIdle
    /\ n_free = 0
    /\ OwnIdle
    /\ FnIdle

AddStrand ==
    /\ cx_err = "none"
    /\ \E strand \in CxStrands, update_graph \in BOOLEAN :
          Call("add_strand", <<strand, update_graph>>)

RemoveStrand ==
    /\ cx_err = "none"
    /\ \E strand \in CxStrands, update_graph \in BOOLEAN, update_edge_pairs \in BOOLEAN :
          Call("remove_strand", <<strand, update_graph, update_edge_pairs>>)

AddStrands ==
    /\ cx_err = "none"
    /\ \E order \in StrandOrders, update_graph \in BOOLEAN :
          Call("add_strands", <<order, update_graph>>)

RemoveStrands ==
    /\ cx_err = "none"
    /\ \E order \in StrandOrders, update_graph \in BOOLEAN, update_edge_pairs \in BOOLEAN :
          Call("remove_strands", <<order, update_graph, update_edge_pairs>>)

AddHybridizationEdge ==
    /\ cx_err = "none"
    /\ \E domain_pair \in HybridizationCandidates(cx) :
          Call("add_hybridization_edge", domain_pair)

RemoveHybridizationEdge ==
    /\ cx_err = "none"
    /\ \E domain_pair \in ComplementaryPairs :
          Call("remove_hybridization_edge", domain_pair)

AddStackingEdge ==
    /\ cx_err = "none"
    /\ \E stacking_pair \in StackingCandidates(cx) :
          Call("add_stacking_edge", stacking_pair)

RemoveStackingEdge ==
    /\ cx_err = "none"
    /\ \E stacking_pair \in StackingCandidates(cx) :
          Call("remove_stacking_edge", stacking_pair)

CxNext ==
    \/ AddStrand \/ RemoveStrand \/ AddStrands \/ RemoveStrands
    \/ AddHybridizationEdge \/ RemoveHybridizationEdge
    \/ AddStackingEdge \/ RemoveStackingEdge

SpecCx == CxInit /\ [][CxNext]_vars

(***************************************************************************)
(* -----------------  SEVERAL COMPLEXES: strand ownership  --------------- *)
(* Two Complex objects and the strands they share.  strand.complex is an   *)
(* attribute of the strand, so it is kept once (owner) and handed to the   *)
(* method as seen from the complex that is called.                         *)
(***************************************************************************)

\* Complex k as the methods see it: strand.complex is self, None or another complex.
ComplexView(k) ==
    [cxs[k] EXCEPT !.strand_complex =
        [s \in CxStrands |-> IF owner[s] = k THEN Self
                             ELSE IF owner[s] = None THEN None ELSE OtherComplex]]

\* strand.complex after a call on complex k left c.
OwnerAfter(k, c) ==
    [s \in CxStrands |-> IF c.strand_complex[s] = Self THEN k
                         ELSE IF c.strand_complex[s] = None THEN None ELSE owner[s]]

\* One call of a decorated strand mutator on complex k.
OwnCall(k, op, arg) ==
    /\ own_calls < MaxOwnCalls
    /\ \E r \in {state_should_change(ComplexView(k), op, arg)} :
          /\ cxs' = [cxs EXCEPT ![k] = [r.c EXCEPT !.strand_complex = [s \in CxStrands |-> None]]]
          /\ owner' = OwnerAfter(k, r.c)
          /\ own_err' = r.err
    /\ own_last' = <<k, op, arg>>
    /\ own_calls' = own_calls + 1
    /\ UNCHANGED simvars
    /\ UNCHANGED cxvars
    /\ UNCHANGED fnvars

\* Complex(strands=S1) and then Complex(strands=S2): each constructor sets
\* strand.complex = self for its strands.
\* SuperComplex.state_fingerprint, the generator body for one child complex k:
\* hash((cmplx.strands_fingerprint(), cmplx.hybridization_fingerprint(),
\* cmplx.stacking_fingerprint())), the three calls run in this order on the child.
child_fingerprints(k) ==
    LET r1 == strands_fingerprint(ComplexView(k))
        r2 == hybridization_fingerprint(r1.c)
        r3 == stacking_fingerprint(r2.c)
    IN  [err |-> IF r1.err # "none" THEN r1.err
                 ELSE IF r2.err # "none" THEN r2.err
                 ELSE r3.err,
         val |-> <<r1.val, r2.val, r3.val>>]

\* SuperComplex.state_fingerprint for a SuperComplex whose complexes are those of the set
\* `complexes` and whose _state_fingerprint is None: the frozenset of the children's
\* hashes.
SuperComplex_state_fingerprint(complexes) ==
    {child_fingerprints(k).val : k \in complexes}

OwnInit ==
    /\ \E S1 \in SUBSET CxStrands, S2 \in SUBSET CxStrands :
          /\ S1 \cap S2 = {}
          /\ cxs = [k \in ComplexIds |-> [NewComplex(IF k = 1 THEN S1 ELSE S2) EXCEPT
                                            !.strand_complex = [s \in CxStrands |-> None]]]
          /\ owner = [s \in CxStrands |-> IF s \in S2 THEN 2 ELSE IF s \in S1 THEN 1 ELSE None]
    /\ own_err = "none"
    /\ own_last = <<None, "__init__", <<>>>>
    /\ own_calls = 0
    /\ SimIdle
    /\ CxIdle
    /\ FnIdle

OwnAddStrand ==
    /\ own_err = "none"
    /\ \E k \in ComplexIds, strand \in CxStrands, update_graph \in BOOLEAN :
              OwnCall(k, "add_strand", <<strand, update_graph>>)

OwnRemoveStrand ==
    /\ own_err = "none"
    /\ \E k \in ComplexIds, strand \in CxStrands, update_graph \in BOOLEAN, update_edge_pairs \in BOOLEAN :
              OwnCall(k, "remove_strand", <<strand, update_graph, update_edge_pairs>>)

OwnAddStrands ==
    /\ own_err = "none"
    /\ \E k \in ComplexIds, order \in StrandOrders, update_graph \in BOOLEAN :
              OwnCall(k, "add_strands", <<order, update_graph>>)

OwnRemoveStrands ==
    /\ own_err = "none"
    /\ \E k \in ComplexIds, order \in StrandOrders, update_graph \in BOOLEAN, update_edge_pairs \in BOOLEAN :
              OwnCall(k, "remove_strands", <<order, update_graph, update_edge_pairs>>)

OwnNext == OwnAddStrand \/ OwnRemoveStrand \/ OwnAddStrands \/ OwnRemoveStrands

SpecOwn == OwnInit /\ [][OwnNext]_vars

(***************************************************************************)
(* -----------------------  WEIGHTS AND ENERGIES  ------------------------ *)
(* The two computations of the simulator that depend on their arguments    *)
(* only, each applied once to every argument of the bounded sets.          *)
(***************************************************************************)

\* The graph of complex c with the hybridization edges of the pairs H and the stacking
\* edges of the stacking pairs K added.
RECURSIVE WithEdges(_, _, _)
WithEdges(c, H, K) ==
    IF H # {}
    THEN LET pr == CHOOSE x \in H : TRUE
         IN  WithEdges(add_hybridization_edge(c, pr).c, H \ {pr}, K)
    ELSE IF K # {}
    THEN LET sp == CHOOSE x \in K : TRUE
         IN  WithEdges(add_stacking_edge(c, sp).c, H, K \ {sp})
    ELSE c

\* The complexes adjust_icid_radius_or_use_instance is applied to: the strands with some
\* of their domains hybridized and at most one stack, with the icid_radius of the
\* constructor or a smaller one; icid_use_instance as the constructor leaves it (True) or
\* switched off.
IcidComplexes ==
    {[WithEdges(NewComplex(S), H, K) EXCEPT !.icid_radius = r, !.icid_use_instance = u] :
        S \in {{1, 3}, {1, 2, 3}},
        H \in {X \in SUBSET {pr \in ComplementaryPairs : DomName[pr[1]] = "A"} :
                   \A x, y \in X : x # y => x[1] # y[1] /\ x[2] # y[2]},
        K \in {{}} \cup {{sp} : sp \in StackingPairs},
        r \in {1, 5},
        u \in BOOLEAN}

FnInit ==
    /\ \/ fn_pc = "domain_weights" /\ fn_in \in DomainWeightLists
       \/ fn_pc = "energy_args" /\ fn_in \in EnergyArgs
       \/ fn_pc = "p_hyb_args" /\ fn_in \in PHybArgs
       \/ /\ fn_pc = "icid_args"
          /\ fn_in \in {c \in IcidComplexes :
                            /\ \A pair \in c.hybridized_pairs : pair \subseteq DomainsOfStrands(c.strands)
                            /\ \A e \in c.stacked_pairs : {e[1], e[2]} \subseteq DomainsOfStrands(c.strands)}
    /\ fn_out = <<>>
    /\ Domain_dHdS = <<>>
    /\ dH_dS_invocations = <<>>
    /\ n_energy_calls = 0
    /\ SimIdle
    /\ CxIdle
    /\ OwnIdle

\* select_event_domains, lines 279-287: from the weights of the candidates to the
\* arguments of the draw.
ChoiceWeights ==
    /\ fn_pc = "domain_weights"
    /\ fn_out' = choice_weights(fn_in)
    /\ fn_pc' = "choice"
    /\ UNCHANGED <<fn_in, Domain_dHdS, dH_dS_invocations, n_energy_calls>>
    /\ UNCHANGED simvars
    /\ UNCHANGED cxvars
    /\ UNCHANGED ownvars

\* hybridization_energy(domain1, domain2, T): the standard values, from the memo or from
\* hybridization_dH_dS, and the corrections.  (deltaG = deltaH*1000 - T*deltaS is a function
\* of the returned deltaH, deltaS and of T; it is not part of the model.)
HybridizationEnergy ==
    /\ fn_pc = "energy_args"
    /\ LET key == Domain_dHdS_key(fn_in.d1_Name)
       IN  IF key \notin DOMAIN Domain_dHdS
           THEN LET dHdS == hybridization_dH_dS(fn_in.d1_Name, fn_in.d2_Name)
                IN  /\ Domain_dHdS' = [k \in DOMAIN Domain_dHdS \cup {key} |->
                                          IF k = key THEN dHdS ELSE Domain_dHdS[k]]
                    /\ dH_dS_invocations' =
                          Append(dH_dS_invocations, <<fn_in.d1_Name, fn_in.d2_Name>>)
                    /\ fn_out' = hybridization_energy(fn_in, dHdS)
           ELSE /\ fn_out' = hybridization_energy(fn_in, Domain_dHdS[key])
                /\ UNCHANGED <<Domain_dHdS, dH_dS_invocations>>
    /\ n_energy_calls' = n_energy_calls + 1
    /\ fn_pc' = "energy"
    /\ UNCHANGED fn_in
    /\ UNCHANGED simvars
    /\ UNCHANGED cxvars
    /\ UNCHANGED ownvars

\* The caller passes the arguments of a further call of hybridization_energy.
HybridizationEnergyAgain ==
    /\ fn_pc = "energy"
    /\ n_energy_calls < MaxEnergyCalls
    /\ fn_in' \in FurtherEnergyArgs
    /\ fn_pc' = "energy_args"
    /\ UNCHANGED <<fn_out, Domain_dHdS, dH_dS_invocations, n_energy_calls>>
    /\ UNCHANGED simvars
    /\ UNCHANGED cxvars
    /\ UNCHANGED ownvars

\* Complex.adjust_icid_radius_or_use_instance() with its default arguments.  On the path
\* that leaves the loop by break the code calls pdb.set_trace(): the debugger either lets
\* the call go on (it returns) or is quit (bdb.BdbQuit is raised).
AdjustIcidRadiusOrUseInstance ==
    /\ fn_pc = "icid_args"
    /\ \E pdb \in {"continue", "quit"} :
          LET c1 == adjust_icid_radius_or_use_instance(fn_in, 3)
              \* the else branch of the loop is the only place that changes icid_use_instance
              left_by_break == c1.icid_use_instance = fn_in.icid_use_instance
          IN  fn_out' = IF left_by_break /\ pdb = "quit"
                        THEN Raised(c1, "BdbQuit") ELSE Returned(c1, None)
    /\ fn_pc' = "icid"
    /\ UNCHANGED <<fn_in, Domain_dHdS, dH_dS_invocations, n_energy_calls>>
    /\ UNCHANGED simvars
    /\ UNCHANGED cxvars
    /\ UNCHANGED ownvars

\* step, lines 515-528: the probability that is compared with random.random().
OversampledPHyb ==
    /\ fn_pc = "p_hyb_args"
    /\ fn_out' = oversampled_p_hyb(fn_in)
    /\ fn_pc' = "p_hyb"
    /\ UNCHANGED <<fn_in, Domain_dHdS, dH_dS_invocations, n_energy_calls>>
    /\ UNCHANGED simvars
    /\ UNCHANGED cxvars
    /\ UNCHANGED ownvars

FnNext ==
    \/ OversampledPHyb
    \/ ChoiceWeights
    \/ HybridizationEnergy
    \/ HybridizationEnergyAgain
    \/ AdjustIcidRadiusOrUseInstance

SpecFn == FnInit /\ [][FnNext]_vars

(***************************************************************************)
(* Claims about the simulator                                              *)
(***************************************************************************)

PartnerReciprocalComplementary ==
    \A d \in SimDomains :
        Partner[d] # None => /\ Partner[d] \in SimDomains
                             /\ Partner[Partner[d]] = d
                             /\ SimName[Partner[d]] = Domain_pairs[SimName[d]]

HybridizesOnlyUnpaired ==
    last_event'[1] = "hybridize" =>
        /\ Partner[last_event'[2]] = None
        /\ Partner[last_event'[3]] = None

HybridizedPairs == {pr \in SimDomains \X SimDomains : Partner[pr[1]] = pr[2] /\ pr[1] < pr[2]}

\* C2: N_domains_hybridized is twice the number of hybridized pairs, i.e. the number of
\* domains with a partner; it is even and within 0..N_domains, and the assertions of
\* simulate never fail.
C2_DomainCounter ==
    /\ N_domains_hybridized = 2 * Cardinality(HybridizedPairs)
    /\ N_domains_hybridized = n_hybridized_domains(Partner, Strands)
    /\ N_domains_hybridized % 2 = 0
    /\ N_domains_hybridized \in 0 .. N_domains(Strands)
    /\ sim_pc # "raised"

\* simulate returned after a run in which the counter moved to a non-zero value.
C2_Witness ==
    /\ last_event[1] = "end"
    /\ sim_pc = "idle"
    /\ N_changes > 0
    /\ N_domains_hybridized > 0

\* C3: after every hybridize or dehybridize performed by step, N_strands_hybridized is
\* the number of strands with at least one hybridized domain (so the strand fields of
\* the snapshot recorded for the mutation describe the graph).
C3_StrandCounter ==
    last_event[1] \in {"hybridize", "dehybridize"} =>
        N_strands_hybridized = n_hybridized_strands(Partner, Strands)


(***************************************************************************)
(* Claims about the Complex                                                *)
(***************************************************************************)

\* Two domains are in the same connected component of the graph.
SameComponent(c, a, b) == b \in ReachableFrom(c, {a})

\* The domains named by the argument of an edge mutator.
ArgDomains(op, arg) ==
    IF op \in {"add_stacking_edge", "remove_stacking_edge"}
    THEN {arg[1][1], arg[1][2], arg[2][1], arg[2][2]}
    ELSE {arg[1], arg[2]}

\* After the body of an edge-adding mutator ran, the ends of each added edge are in one
\* component.
EdgeAdderJoins ==
    /\ (last'.op = "add_hybridization_edge" /\ last'.old # <<>>)
          => SameComponent(cx', last'.arg[1], last'.arg[2])
    /\ (last'.op = "add_stacking_edge" /\ last'.old # <<>>)
          => \A e \in StackingEdgesOf(last'.arg) : SameComponent(cx', e[1], e[2])

\* An edge-adding mutator between domains of a connected complex leaves it connected.
EdgeAdderKeepsConnected ==
    ( /\ last'.op \in {"add_hybridization_edge", "add_stacking_edge"}
      /\ last'.old # <<>>
      /\ IsConnected(cx)
      /\ ArgDomains(last'.op, last'.arg) \subseteq cx.nodes )
    => IsConnected(cx')

StrandMultiset(c) ==
    [n \in StrandNames |-> Cardinality({s \in c.strands : StrandName[s] = n})]
GraphState(c) == <<StrandMultiset(c), c.hybridized_pairs, c.stacked_pairs>>

\* C5: whenever a decorated mutator changes the graph state (the strand multiset, the
\* hybridized pairs or the stacked pairs), the fingerprint computed after it differs
\* from the one computed before it: the decorator's assertion
\* new_fingerprint != old_fingerprint does not fail on a real state change.
C5_FingerprintChanges ==
    (last.op # "__init__" /\ GraphState(cx) # GraphState(last.pre))
        => cx_err # "AssertionError: state_should_change"

\* The values the fingerprints have when recomputed from the strand set, the hybridized
\* pairs, the stacked pairs and the icids.
FreshStrands(c) ==
    {<<n, Cardinality({s \in c.strands : StrandName[s] = n})>> :
        n \in {StrandName[s] : s \in c.strands}}
FreshHybridization(c) ==
    {{<<domain_strand_specie(d), in_complex_identifier(c, d)>> : d \in pair} :
        pair \in c.hybridized_pairs}
FreshStacking(c) ==
    {<< <<domain_strand_specie(e[1]), in_complex_identifier(c, e[1])>>,
        <<domain_strand_specie(e[2]), in_complex_identifier(c, e[2])>> >> :
        e \in c.stacked_pairs}
NoneOrEquals(cache, v) == cache = <<>> \/ cache = <<v>>

\* C6: after any sequence of mutators each cached fingerprint (strands, hybridization,
\* stacking, state) is None or equal to the value recomputed from the current strand
\* set, hybridized pairs, stacked pairs and icids.
C6_CachesConsistent ==
    cx_err = "none" =>
        /\ NoneOrEquals(cx._strands_fingerprint, FreshStrands(cx))
        /\ NoneOrEquals(cx._hybridization_fingerprint, FreshHybridization(cx))
        /\ NoneOrEquals(cx._stacking_fingerprint, FreshStacking(cx))
        /\ NoneOrEquals(cx._state_fingerprint,
                        <<FreshStrands(cx), FreshHybridization(cx), FreshStacking(cx)>>)

\* Two domain pairs name the same two domains.
SamePair(p, q) == {p[1], p[2]} = {q[1], q[2]}

\* add_hybridization_edge(a, b) returned and remove_hybridization_edge(a, b) follows.
AddThenRemoveRestores ==
    ( /\ last.op = "add_hybridization_edge" /\ cx_err = "none"
      /\ last'.op = "remove_hybridization_edge" /\ SamePair(last.arg, last'.arg) )
    => /\ cx_err' = "none"
       /\ last'.old = last.new
       /\ last'.new = last.old
       /\ last.new # last.old

\* remove_hybridization_edge(a, b) returned and add_hybridization_edge(a, b) follows.
RemoveThenAddRestores ==
    ( /\ last.op = "remove_hybridization_edge" /\ cx_err = "none"
      /\ last'.op = "add_hybridization_edge" /\ SamePair(last.arg, last'.arg) )
    => /\ cx_err' = "none"
       /\ last'.old = last.new
       /\ last'.new = last.old
       /\ last.new # last.old

\* C7: state_fingerprint() after add_hybridization_edge(a, b) followed by
\* remove_hybridization_edge(a, b) equals state_fingerprint() before the add, and likewise
\* after the remove of an existing edge followed by its re-add; the fingerprint in between
\* differs from both.
C7_HybridizationRoundTrip == [][AddThenRemoveRestores /\ RemoveThenAddRestores]_cxvars

\* remove_hybridization_edge returned on the complex that add_hybridization_edge of the
\* same pair left, with the fingerprint the complex had before the add.
C7_Witness ==
    /\ last.op = "remove_hybridization_edge"
    /\ cx_err = "none"
    /\ \E S \in SUBSET CxStrands, pr \in ComplementaryPairs :
          LET r == state_should_change(NewComplex(S), "add_hybridization_edge", pr)
          IN  /\ SamePair(pr, last.arg)
              /\ r.err = "none"
              /\ last.pre = r.c
              /\ last.new = r.old
              /\ last.old = r.new

\* The strand has no hybridization or stacking edge in the complex.
Isolated(c, s) ==
    /\ \A pair \in c.hybridized_pairs : pair \cap DomainsOfStrand(s) = {}
    /\ \A pair \in c.stacked_pairs : {pair[1], pair[2]} \cap DomainsOfStrand(s) = {}
    /\ \A e \in c.edges :
          e[3] # PHOSPHATEBACKBONE_INTERACTION => {e[1], e[2]} \cap DomainsOfStrand(s) = {}

\* The strand bookkeeping of a complex: strand set, the two name indices, the two
\* species counters.
StrandBookkeeping(c) ==
    <<c.strands, c.strands_by_name, c.domains_by_name, c.strand_species_counter,
      c.domain_species_counter>>

\* add_strand(s) of an isolated strand not in the complex returned and remove_strand(s)
\* follows.
AddThenRemoveStrandRestores ==
    ( /\ last.op = "add_strand" /\ cx_err = "none"
      /\ last.arg[1] \notin last.pre.strands
      /\ Isolated(last.pre, last.arg[1])
      /\ last'.op = "remove_strand" /\ last'.arg[1] = last.arg[1] )
    => /\ cx_err' = "none"
       /\ last'.new = last.old
       /\ StrandBookkeeping(cx') = StrandBookkeeping(last.pre)

StrandSpeciesMultiset(c) ==
    [n \in {StrandName[s] : s \in c.strands} |->
        Cardinality({s \in c.strands : StrandName[s] = n})]
DomainSpeciesMultiset(c) ==
    [n \in {DomName[d] : d \in DomainsOfStrands(c.strands)} |->
        Cardinality({d \in DomainsOfStrands(c.strands) : DomName[d] = n})]

\* C9: after any sequence of add_strand, add_strands, remove_strand and remove_strands
\* calls (adding a strand that is already present included), strand_species_counter is
\* the multiset of the species names of the strands in the strand set and
\* domain_species_counter the multiset of the species names of their domains, without
\* zero or negative entries, and the two assertions of strands_species_count do not fail.
C9_CountersExact ==
    /\ cx_err # "AssertionError: strands_species_count"
    /\ cx_err = "none" =>
          /\ cx.strand_species_counter = StrandSpeciesMultiset(cx)
          /\ cx.domain_species_counter = DomainSpeciesMultiset(cx)

\* C10: remove_strand(s) on a strand that is not in the complex raises, and the complex
\* is as before the call: strand set, name indices, species counters, hybridized_pairs,
\* stacked_pairs and s.complex.
C10_RemoveAbsentStrandRaises ==
    (last.op = "remove_strand" /\ last.arg[1] \notin last.pre.strands) =>
        /\ cx_err = "KeyError"
        /\ StrandBookkeeping(cx) = StrandBookkeeping(last.pre)
        /\ cx.hybridized_pairs = last.pre.hybridized_pairs
        /\ cx.stacked_pairs = last.pre.stacked_pairs
        /\ cx.strand_complex = last.pre.strand_complex

\* remove_strand was called with a strand that is not in a complex that holds other
\* strands, and raised.
C10_Witness ==
    /\ last.op = "remove_strand"
    /\ last.arg[1] \notin last.pre.strands
    /\ last.pre.strands # {}
    /\ cx_err = "KeyError"

\* The hybridized pairs and the stacked pairs of a complex that contain a domain of s.
HybridizedPairsOf(c, s) == {pair \in c.hybridized_pairs : pair \cap DomainsOfStrand(s) # {}}
StackedPairsOf(c, s) ==
    {pair \in c.stacked_pairs : {pair[1], pair[2]} \cap DomainsOfStrand(s) # {}}

\* C11: remove_strand(s) with update_edge_pairs enabled returns exactly the set of
\* hybridized pairs and the set of stacked pairs of the complex that contain a domain of
\* s, and after the call hybridized_pairs and stacked_pairs contain no pair involving a
\* domain of s and still contain every other pair.
C11_RemoveStrandReturnsPairs ==
    (last.op = "remove_strand" /\ last.arg[3] /\ last.arg[1] \in last.pre.strands) =>
        /\ cx_err = "none"
        /\ last.val = <<HybridizedPairsOf(last.pre, last.arg[1]),
                        StackedPairsOf(last.pre, last.arg[1])>>
        /\ cx.hybridized_pairs = last.pre.hybridized_pairs \ HybridizedPairsOf(last.pre, last.arg[1])
        /\ cx.stacked_pairs = last.pre.stacked_pairs \ StackedPairsOf(last.pre, last.arg[1])

\* The caller followed the protocol, except that the last call may be remove_strand of a
\* strand of the complex with its default arguments (update_graph=False,
\* update_edge_pairs=True).
ProtocolOrDefaultRemoveStrand ==
    \/ n_free = 0
    \/ /\ n_free = 1
       /\ last.op = "remove_strand"
       /\ last.arg[1] \in last.pre.strands
       /\ last.arg = <<last.arg[1], FALSE, TRUE>>

\* The unordered endpoint pairs of the hybridization-keyed edges, and the ordered
\* stacking-keyed edges, of the graph.
HybridizationEdgePairs(c) == {{e[1], e[2]} : e \in {e \in c.edges : e[3] = HYBRIDIZATION_INTERACTION}}
StackingEdgePairs(c) == {<<e[1], e[2]>> : e \in {e \in c.edges : e[3] = STACKING_INTERACTION}}

\* C12: in every reachable state hybridized_pairs is exactly the set of unordered endpoint
\* pairs of the hybridization-keyed edges of the graph and stacked_pairs exactly the set
\* of ordered stacking-keyed edges, both endpoints of every pair being domains of strands
\* of this complex; hence the assertions in hybridization_edges and stacking_edges hold
\* whenever a fingerprint is computed, including inside the state_should_change wrapper of
\* remove_strand with its default arguments.
C12_PairsMatchEdges ==
    ProtocolOrDefaultRemoveStrand =>
        /\ cx_err \notin {"AssertionError: hybridization_edges", "AssertionError: stacking_edges"}
        /\ cx_err = "none" =>
              /\ cx.hybridized_pairs = HybridizationEdgePairs(cx)
              /\ cx.stacked_pairs = StackingEdgePairs(cx)
              /\ \A pair \in cx.hybridized_pairs : pair \subseteq DomainsOfStrands(cx.strands)
              /\ \A pair \in cx.stacked_pairs :
                    {pair[1], pair[2]} \subseteq DomainsOfStrands(cx.strands)

\* The other instances of the same species: strands s1 and s2 (both sA) change places,
\* and so do their domains d1 and d2; s3 is the only strand of its species.
OtherStrand(s) == IF s = 1 THEN 2 ELSE IF s = 2 THEN 1 ELSE s
OtherDomain(d) == IF d = 1 THEN 2 ELSE IF d = 2 THEN 1 ELSE d

\* A cached fingerprint as the complex of the other instances holds it: where the icid is
\* the domain instance, it names the other instance.
OtherHybridizationCache(cache) ==
    IF cache = <<>> THEN <<>>
    ELSE <<{{<<x[1], OtherDomain(x[2])>> : x \in pair} : pair \in cache[1]}>>
OtherStackingCache(cache) ==
    IF cache = <<>> THEN <<>>
    ELSE <<{<< <<e[1][1], OtherDomain(e[1][2])>>, <<e[2][1], OtherDomain(e[2][2])>> >> :
               e \in cache[1]}>>
OtherStateCache(cache) ==
    IF cache = <<>> THEN <<>>
    ELSE << <<cache[1][1], OtherHybridizationCache(<<cache[1][2]>>)[1],
              OtherStackingCache(<<cache[1][3]>>)[1]>> >>

\* The complex in the same structural state built from the other instances.
OtherComplexOf(c) ==
    [c EXCEPT
       !.strands = {OtherStrand(x) : x \in @},
       !.strands_by_name = [n \in StrandNames |-> {OtherStrand(x) : x \in @[n]}],
       !.domains_by_name = [n \in DomNames |-> {OtherDomain(x) : x \in @[n]}],
       !.hybridized_pairs = {{OtherDomain(x) : x \in pair} : pair \in @},
       !.stacked_pairs = {<<OtherDomain(pair[1]), OtherDomain(pair[2])>> : pair \in @},
       !.nodes = {OtherDomain(x) : x \in @},
       !.edges = {<<OtherDomain(e[1]), OtherDomain(e[2]), e[3]>> : e \in @},
       !._hybridization_fingerprint = IF c.icid_use_instance THEN OtherHybridizationCache(@) ELSE @,
       !._stacking_fingerprint = IF c.icid_use_instance THEN OtherStackingCache(@) ELSE @,
       !._state_fingerprint = IF c.icid_use_instance THEN OtherStateCache(@) ELSE @,
       !.strand_complex = [x \in CxStrands |-> @[OtherStrand(x)]]]

\* The arguments of a call that does to the other instances what the call did to these.
OtherArg(op, arg) ==
    CASE op \in {"add_strand", "remove_strand"} -> [arg EXCEPT ![1] = OtherStrand(@)]
      [] op \in {"add_strands", "remove_strands"} ->
            [arg EXCEPT ![1] = [i \in 1 .. Len(@) |-> OtherStrand(@[i])]]
      [] op \in {"add_hybridization_edge", "remove_hybridization_edge"} ->
            <<OtherDomain(arg[1]), OtherDomain(arg[2])>>
      [] OTHER -> << <<OtherDomain(arg[1][1]), OtherDomain(arg[1][2])>>,
                     <<OtherDomain(arg[2][1]), OtherDomain(arg[2][2])>> >>

\* C14: the state fingerprint is species-level, not instance-level: two freshly
\* constructed complexes built from different strand instances of the same species and
\* brought into the same structural state (same strand-species counts, same
\* hybridizations and stackings up to renaming of instances) return the same
\* state_fingerprint(), without the caller having to opt out of instance-based
\* identifiers.
\* (Checked where both sA strands are in the complex before and after the call, so that
\* no A domain is the only one of its species and its icid is not the sentinel 0.)
C14_SpeciesLevelFingerprint ==
    ( /\ n_calls > 0 /\ n_free = 0 /\ cx_err = "none"
      /\ {1, 2} \subseteq last.pre.strands /\ {1, 2} \subseteq cx.strands ) =>
        state_should_change(OtherComplexOf(last.pre), last.op, OtherArg(last.op, last.arg)).new
            = last.new


(***************************************************************************)
(* Claims about several complexes                                          *)
(***************************************************************************)

\* C13: across any set of complexes and any sequence of add_strand / add_strands /
\* remove_strand / remove_strands calls, every strand contained in a complex's strand set
\* has its complex back-pointer equal to that complex, and no strand is contained in the
\* strand sets of two complexes at once.
C13_StrandOwnership ==
    own_err = "none" =>
        /\ \A k \in ComplexIds : \A s \in cxs[k].strands : owner[s] = k
        /\ \A s \in CxStrands : Cardinality({k \in ComplexIds : s \in cxs[k].strands}) <= 1

(***************************************************************************)
(* Claims about the tube, the schedule of anneal and the stats caches.     *)
(***************************************************************************)

\* No domain of the tube has a complementary domain in the tube.
NoComplementInTube ==
    \A d \in Domains_list(Strands), e \in Domains_list(Strands) :
        SimName[e] # Domain_pairs[SimName[d]]

\* The snapshots of a stream: those in its cache and the lines of its file that hold one.
SnapshotsOf(statstype) ==
    {Stats_cache[statstype][i] : i \in 1 .. Len(Stats_cache[statstype])}
        \cup {Files[statstype][i] : i \in {j \in 1 .. Len(Files[statstype]) :
                                              Len(Files[statstype][j]) > 0}}

\* C15: in a tube of one strand whose species have no complementary domain in the tube,
\* every step is a no-op: N_changes = 0, N_domains_hybridized = 0, no changesampling
\* snapshot is recorded, and every timesampling snapshot reports zero hybridized domains
\* and strands.
C15_LoneStrandNoOp ==
    (Cardinality(Strands) = 1 /\ NoComplementInTube)
        => /\ N_changes = 0
           /\ N_domains_hybridized = 0
           /\ SnapshotsOf("changesampling") = {}
           /\ \A snap \in SnapshotsOf("timesampling") :
                 /\ snap[2] = 0
                 /\ snap[3][1] = 0
                 /\ snap[4] = 0
                 /\ snap[5][1] = 0

\* A lone strand <A, B> went through every step of the bound, with stats recorded at
\* every step.
C15_Witness ==
    /\ Strands = {1}
    /\ NoComplementInTube
    /\ N_steps = MaxSteps
    /\ Record_stats
    /\ Len(Stats_cache["timesampling"]) = MaxSteps
    /\ sim_pc = "idle"

\* Some species is its own complement in the pairing map.
SelfComplementary == \E k \in DOMAIN Domain_pairs : Domain_pairs[k] = k

\* C16: a pairing map in which a species maps to itself is rejected by the assertion of
\* the constructor: there is no simulator for it, and no step is ever taken with it.
C16_SelfPairRejected ==
    SelfComplementary
        => /\ sim_pc = "rejected"
           /\ N_steps = 0
           /\ N_changes = 0
           /\ last_event[1] = "init"

\* The constructor was given a map with A |-> A for a tube that holds an A domain.
C16_Witness ==
    /\ sim_pc = "rejected"
    /\ 1 \in Strands
    /\ Domain_pairs["A"] = "A"

\* An incoherent schedule: delta_T is 0, or its sign does not match the direction from
\* T_start to T_finish.
Incoherent(T_start, T_finish, delta_T) ==
    \/ delta_T = 0
    \/ ~ ((T_start > T_finish) <=> (delta_T < 0))

\* A call of anneal: the step from no anneal running to an anneal entered.
AnnealCalled == anneal.pc = "none" /\ anneal'.pc # "none"

\* C17: anneal called with an incoherent schedule fails before any simulation: no step
\* is executed, N_steps and N_changes are unchanged, no snapshot is recorded and nothing
\* is written; nothing runs after the failure.
C17_IncoherentScheduleRejected ==
    [][ /\ (AnnealCalled /\ Incoherent(anneal'.T_start, anneal'.T_finish, anneal'.delta_T))
            => /\ sim_pc' = "anneal_raised"
               /\ anneal'.pc = "raised"
               /\ UNCHANGED <<Partner, N_domains_hybridized, N_strands_hybridized, N_steps,
                              N_changes, Stats_cache, Files, n_done>>
        /\ sim_pc = "anneal_raised" => UNCHANGED simvars
      ]_vars

\* anneal was called with a ramp against the sign of delta_T, after a run that had
\* executed steps and recorded snapshots.
C17_Witness ==
    /\ sim_pc = "anneal_raised"
    /\ anneal.delta_T # 0
    /\ Incoherent(anneal.T_start, anneal.T_finish, anneal.delta_T)
    /\ N_steps > 0
    /\ N_changes > 0
    /\ Len(Stats_cache["timesampling"]) > 0

\* C18: with output files configured, a cache that exceeds the threshold during simulate
\* is flushed (appended to the files and cleared) at once, so no cache is above the
\* threshold between steps; and after threshold + 1 steps at timesampling frequency 1
\* from a fresh simulator, the timesampling file holds threshold + 1 lines.
C18_LargeCacheFlushed ==
    Outputstatsfiles # {}
        => /\ \A k \in Default_statstypes : Len(Stats_cache[k]) <= LargeCacheSize
           /\ ( /\ sim_pc = "idle"
                /\ last_event[1] = "end"
                /\ Record_stats
                /\ Timesampling_frequency = 1
                /\ n_steps_max = LargeCacheSize + 1
                /\ N_steps = LargeCacheSize + 1 )
                  => Len(Files["timesampling"]) = LargeCacheSize + 1

\* A line of an output file that holds a snapshot (not the empty line).
IsSnapshotLine(line) == Len(line) > 0

\* The step of anneal that ends a temperature: simulate is over and the cache is saved.
TemperatureEnds == sim_pc = "loop" /\ sim_pc' = "anneal"

\* At the end of a temperature the snapshots of the cache of stream k are appended to
\* its file and the cache is cleared.
Flushed(k) ==
    /\ Stats_cache'[k] = <<>>
    /\ Len(Files'[k]) >= Len(Files[k])
    /\ SubSeq(Files'[k], 1, Len(Files[k])) = Files[k]
    /\ SelectSeq(SubSeq(Files'[k], Len(Files[k]) + 1, Len(Files'[k])), IsSnapshotLine)
          = Stats_cache[k]

\* Every cache is empty at a temperature boundary of anneal and when anneal returns.
EmptyAtBoundaries ==
    last_event[1] \in {"save_stats_cache", "anneal_return"}
        => \A k \in Default_statstypes : Stats_cache[k] = <<>>

C20_CacheBounded ==
    \A k \in Default_statstypes :
        Len(Stats_cache[k]) * Timesampling_frequency
            <= LargeCacheSize * Timesampling_frequency + n_steps_max

\* C21: save_stats_cache called while a stream's cache is empty appends no line, not even
\* an empty one, to that stream's file and leaves the cache empty.
C21_EmptyCacheFlushIsNoOp ==
    [][\A k \in Default_statstypes :
          (TemperatureEnds /\ Stats_cache[k] = <<>>)
              => (Files'[k] = Files[k] /\ Stats_cache'[k] = <<>>)]_vars

\* save_stats_cache raises an I/O error in this step.
IOErrorRaised == sim_pc # "io_raised" /\ sim_pc' = "io_raised"

\* Stream k was written in full and reset in this step.
WrittenAndReset(k) ==
    /\ Stats_cache'[k] = <<>>
    /\ Files'[k] = Files[k] \o WrittenLines(Stats_cache[k])

\* C22: when opening or writing a file fails in save_stats_cache, the error leaves anneal
\* (no further temperature is simulated), every stream that was not written in full still
\* holds all its snapshots in order, and a later save_stats_cache writes them.
C22_CachePreservedOnIOError ==
    [][ /\ IOErrorRaised
            => /\ anneal'.pc = "raised"
               /\ UNCHANGED <<N_steps, N_changes, Partner>>
               /\ \A k \in Default_statstypes :
                     WrittenAndReset(k) \/ Stats_cache'[k] = Stats_cache[k]
        /\ (sim_pc = "io_raised" /\ sim_pc' # "io_raised")
            => \A k \in Default_statstypes : Flushed(k)
      ]_vars

\* The write of one stream failed after the other stream had been written: the first
\* cache is empty with its snapshot in the file, the second still holds its snapshots.
C22_Witness ==
    /\ sim_pc = "io_raised"
    /\ \E k \in Default_statstypes, j \in Default_statstypes :
          /\ Stats_cache[k] = <<>>
          /\ \E i \in 1 .. Len(Files[k]) : IsSnapshotLine(Files[k][i])
          /\ Len(Stats_cache[j]) > 0

\* Sequence p is a prefix of sequence q.
IsPrefix(p, q) == Len(p) <= Len(q) /\ SubSeq(q, 1, Len(p)) = p

\* The snapshots of stream k in their order of appearance: the snapshot lines of the file,
\* then the cache (which a flush appends to the file).
Stream(k) == SelectSeq(Files[k], IsSnapshotLine) \o Stats_cache[k]
StreamAfter(k) == SelectSeq(Files'[k], IsSnapshotLine) \o Stats_cache'[k]

NoIOError == sim_pc \notin {"io_raised", "saved"}

\* C24: with record_stats enabled a changesampling snapshot is recorded once for every
\* accepted mutation and at no other time, so the changesampling snapshots recorded
\* (cached plus flushed) are N_changes; with record_stats disabled no snapshot of either
\* stream is recorded and both caches stay empty.
C24_ChangesamplingCountsChanges ==
    /\ [] ( /\ (Record_stats /\ NoIOError) => Len(Stream("changesampling")) = N_changes
            /\ ~Record_stats => \A k \in Default_statstypes :
                                   Stats_cache[k] = <<>> /\ SnapshotsOf(k) = {} )
    /\ [][ (Record_stats /\ ~IOErrorRaised)
              => Len(StreamAfter("changesampling")) - Len(Stream("changesampling"))
                    = N_changes' - N_changes ]_vars

\* Stats are recorded, two mutations were accepted: the snapshot of the first is in the
\* file, the snapshot of the second in the cache.
C24_Witness ==
    /\ Record_stats
    /\ N_changes = 2
    /\ Len(SelectSeq(Files["changesampling"], IsSnapshotLine)) = 1
    /\ Len(Stats_cache["changesampling"]) = 1

\* The timesampling snapshots that a step adds to the stream.
NewTimesamples ==
    SubSeq(StreamAfter("timesampling"), Len(Stream("timesampling")) + 1,
           Len(StreamAfter("timesampling")))

\* C25: with record_stats enabled, after N executed steps (over all simulate calls)
\* exactly floor(N / timesampling_frequency) timesampling snapshots have been recorded;
\* one is recorded right after every step whose number is a multiple of the frequency,
\* with the state after that step, whether or not the step changed the state, and none
\* after any other step.
C25_TimesamplingEveryFrequencySteps ==
    /\ [] ((Record_stats /\ NoIOError)
              => Len(Stream("timesampling")) = N_steps \div Timesampling_frequency)
    /\ [][ (Record_stats /\ ~IOErrorRaised)
              => NewTimesamples =
                    IF N_steps' = N_steps + 1 /\ N_steps' % Timesampling_frequency = 0
                    THEN <<Snapshot(sim_T, N_domains_hybridized', N_strands_hybridized',
                                    Strands)>>
                    ELSE <<>> ]_vars

\* At frequency 2, three steps that changed nothing were executed and one timesampling
\* snapshot was recorded.
C25_Witness ==
    /\ Record_stats
    /\ Timesampling_frequency = 2
    /\ N_steps = 3
    /\ N_changes = 0
    /\ Len(Stream("timesampling")) = 1

(***************************************************************************)
(* Claims about the SuperComplex.                                          *)
(***************************************************************************)

\* The sets of complexes whose fingerprints can all be computed (no assertion fails).
SuperComplexes ==
    {S \in SUBSET ComplexIds : \A k \in S : child_fingerprints(k).err = "none"}

\* The multiset of the fingerprints of the children: fingerprint |-> number of children.
ChildFingerprintMultiset(S) ==
    [h \in {child_fingerprints(k).val : k \in S} |->
        Cardinality({k \in S : child_fingerprints(k).val = h})]

\* C26: the fingerprint of a SuperComplex is the unordered multiset of the fingerprints
\* of its children: two SuperComplexes have the same fingerprint exactly when their
\* children have the same fingerprints with the same multiplicities.
C26_SuperComplexFingerprintIsMultiset ==
    \A S1 \in SuperComplexes, S2 \in SuperComplexes :
        (SuperComplex_state_fingerprint(S1) = SuperComplex_state_fingerprint(S2))
            <=> (ChildFingerprintMultiset(S1) = ChildFingerprintMultiset(S2))

(***************************************************************************)
(* Claims about one step and the selection of its domains.                 *)
(***************************************************************************)

\* step() returned in this step of the model (its assertion did not fail).
StepReturned == sim_pc = "loop" /\ n_done' = n_done + 1

\* What step() itself leaves alone when it does not mutate: the partner relation, the
\* counters, the changesampling cache and the files.  (The timesampling snapshot of the
\* same iteration is recorded by simulate, after step returned.)
StepChangesNothing ==
    /\ UNCHANGED <<Partner, N_changes, N_domains_hybridized, N_strands_hybridized, Files>>
    /\ Stats_cache'["changesampling"] = Stats_cache["changesampling"]

\* C27: the effect of one step is determined by (d2, is_hyb, u <= p): nothing changes when
\* d2 is None; an unhybridized pair with u <= p_hyb is hybridized, with N_changes + 1 and
\* N_domains_hybridized + 2; a hybridized pair with u > p_hyb is de-hybridized, with
\* N_changes + 1 and N_domains_hybridized - 2; in the two remaining cases nothing changes.
C27_StepEffect ==
    [][ StepReturned =>
          LET d1 == last_event'[2]
              d2 == last_event'[3]
              u_le_p == last_event'[4] = "u<=p"
              u_gt_p == last_event'[4] = "u>p"
              is_hyb == Partner[d1] # None
          IN  /\ d2 = None => StepChangesNothing
              /\ d2 # None => (u_le_p \/ u_gt_p) /\ (is_hyb <=> Partner[d1] = d2)
              /\ (d2 # None /\ ~is_hyb /\ u_le_p)
                    => /\ Partner' = [Partner EXCEPT ![d1] = d2, ![d2] = d1]
                       /\ N_changes' = N_changes + 1
                       /\ N_domains_hybridized' = N_domains_hybridized + 2
              /\ (d2 # None /\ is_hyb /\ u_gt_p)
                    => /\ Partner' = [Partner EXCEPT ![d1] = None, ![d2] = None]
                       /\ N_changes' = N_changes + 1
                       /\ N_domains_hybridized' = N_domains_hybridized - 2
              /\ (d2 # None /\ ((is_hyb /\ u_le_p) \/ (~is_hyb /\ u_gt_p)))
                    => StepChangesNothing
      ]_vars

\* After a hybridization and a de-hybridization, a selected unhybridized pair was rejected
\* by the draw.
C27_Witness ==
    /\ last_event[1] = "keep"
    /\ last_event[4] = "u>p"
    /\ Partner[last_event[2]] = None
    /\ N_changes = 2
    /\ N_domains_hybridized = 0

\* The results select_event_domains can return in the current state of the tube.
SelectableEvents == select_event_domains(Partner, Strands, Domain_pairs)

\* C28: select_event_domains returns (d1, d1.Partner, True) whenever the picked d1 has a
\* partner, with no candidate considered; otherwise the flag is not true and d2 is None or
\* an unpaired domain of the species declared complementary to the species of d1.
C28_SelectEventDomains ==
    sim_pc # "rejected" =>
       /\ \A ev \in SelectableEvents :
             IF Partner[ev[1]] # None
             THEN ev = <<ev[1], Partner[ev[1]], TRUE>>
             ELSE /\ ev[3] # TRUE
                  /\ \/ ev[2] = None
                     \/ /\ ev[2] \in Domains_list(Strands)
                        /\ Partner[ev[2]] = None
                        /\ SimName[ev[2]] = Domain_pairs[SimName[ev[1]]]
       /\ \A d1 \in Domains_list(Strands) : \E ev \in SelectableEvents : ev[1] = d1

\* A step has hybridized two domains, which are now returned as a hybridized pair, while
\* another domain of the tube is unpaired and has a candidate.
C28_Witness ==
    /\ last_event[1] = "hybridize"
    /\ <<last_event[2], last_event[3], TRUE>> \in SelectableEvents
    /\ \E ev \in SelectableEvents : ev[3] = FALSE /\ ev[2] # None
    /\ \E ev \in SelectableEvents : ev[3] = FALSE /\ ev[2] = None

(***************************************************************************)
(* Claims about the weights of the draw and the energy corrections.        *)
(***************************************************************************)

\* The sum of a sequence of numbers <<numerator, denominator>>, as such a number.
RECURSIVE RatSum(_)
RatSum(p) ==
    IF p = <<>> THEN <<0, 1>>
    ELSE LET h == Head(p)
             t == RatSum(Tail(p))
         IN  <<h[1] * t[2] + t[1] * h[2], h[2] * t[2]>>

\* Two numbers <<numerator, denominator>> are equal.
RatEq(x, y) == x[1] * y[2] = y[1] * x[2]

\* C29: for every list of non-negative weights with sum W, the empty list included, the
\* weights handed to the draw sum to 1: with W < 1 a null candidate of weight 1 - W is
\* appended, with W > 1 the weights are divided by W and there is no null candidate, with
\* W = 1 the weights are unchanged; the null candidate is present iff W < 1.
C29_ChoiceWeightsSumToOne ==
    fn_pc = "choice" =>
       LET W == domain_weights_sum(fn_in)
           n == Len(fn_in)
           p == fn_out.p
       IN  /\ \A i \in 1 .. Len(p) : p[i][1] >= 0 /\ p[i][2] > 0
           /\ RatEq(RatSum(p), <<1, 1>>)
           /\ fn_out.null_candidate <=> W < WeightUnit
           /\ Len(p) = IF W < WeightUnit THEN n + 1 ELSE n
           /\ W < WeightUnit =>
                 /\ \A i \in 1 .. n : RatEq(p[i], <<fn_in[i], WeightUnit>>)
                 /\ RatEq(p[n + 1], <<WeightUnit - W, WeightUnit>>)
           /\ W > WeightUnit =>
                 \A i \in 1 .. n : RatEq(p[i], <<fn_in[i], W>>)
           /\ W = WeightUnit =>
                 \A i \in 1 .. n : RatEq(p[i], <<fn_in[i], WeightUnit>>)

\* Three candidates whose weights 1/2, 3/2 and 1 sum to 3 have been normalized.
C29_Witness ==
    /\ fn_pc = "choice"
    /\ fn_in = <<1, 3, 2>>
    /\ ~fn_out.null_candidate
    /\ RatEq(fn_out.p[2], <<1, 2>>)

\* The number of neighbours that exist among the four positions around the duplex.
ExistingNeighbors(a) ==
    exists(a.d1_5p) + exists(a.d1_3p) + exists(a.d2_5p) + exists(a.d2_3p)

\* C30: the number of neighbours N_n of the electrostatic correction is the number of
\* existing neighbours among the four positions around the duplex (the 5' and the 3'
\* neighbour of domain1 and of domain2), and the correction before the stacking term is
\* deltaH_corr = -3 * N_n and deltaS_corr = -10 * N_n.
C30_NeighborsAreCountedAtFourPositions ==
    fn_pc = "energy" =>
       /\ fn_out.N_neighbors = ExistingNeighbors(fn_in)
       /\ fn_out.before_stacking.deltaH_corr = -3 * ExistingNeighbors(fn_in)
       /\ fn_out.before_stacking.deltaS_corr = -10 * ExistingNeighbors(fn_in)

\* 1 for a neighbour that is hybridized, 0 otherwise.
Hyb(n) == IF n = "hybridized" THEN 1 ELSE 0

\* The number of hybridized neighbours among the four positions around the duplex.
HybridizedNeighbors(a) == Hyb(a.d1_5p) + Hyb(a.d1_3p) + Hyb(a.d2_5p) + Hyb(a.d2_3p)

\* C31: the stacking count N_s of hybridization_energy is the number of neighbours of the
\* duplex, among the four positions, that are hybridized, for every combination of the
\* four flags, and the stacking term adds -7 * N_s to deltaH_corr and -20 * N_s to
\* deltaS_corr.
C31_StackingCountsHybridizedNeighbors ==
    fn_pc = "energy" =>
       /\ fn_out.N_stacking = HybridizedNeighbors(fn_in)
       /\ fn_out.deltaH_corr = fn_out.before_stacking.deltaH_corr - 7 * HybridizedNeighbors(fn_in)
       /\ fn_out.deltaS_corr - intra_complex_corr(fn_in)
             = fn_out.before_stacking.deltaS_corr - 20 * HybridizedNeighbors(fn_in)

\* The number of sides of the duplex with a hybridized neighbour: the 5' neighbour of
\* domain1 and the 3' neighbour of domain2 are on one side, the 5' neighbour of domain2
\* and the 3' neighbour of domain1 on the other.
StackedSides(a) ==
    (IF Hyb(a.d1_5p) + Hyb(a.d2_3p) > 0 THEN 1 ELSE 0)
      + (IF Hyb(a.d2_5p) + Hyb(a.d1_3p) > 0 THEN 1 ELSE 0)

\* C32: the stacking gain is granted once per side of the duplex: for every combination of
\* the four flags N_stacking = [d1's 5' or d2's 3' neighbour hybridized] + [d2's 5' or d1's
\* 3' neighbour hybridized], a value in 0 .. 2 that is 2 exactly when both sides have a
\* hybridized neighbour.
C32_StackingOncePerSide ==
    fn_pc = "energy" =>
       /\ fn_out.N_stacking = StackedSides(fn_in)
       /\ fn_out.N_stacking \in 0 .. 2
       /\ fn_out.N_stacking = 2 <=>
             /\ Hyb(fn_in.d1_5p) + Hyb(fn_in.d2_3p) > 0
             /\ Hyb(fn_in.d2_5p) + Hyb(fn_in.d1_3p) > 0

\* deltaS_corr as it is before the intra-complex correction.
DeltaSBeforeIntraComplex == fn_out.before_stacking.deltaS_corr - 20 * fn_out.N_stacking

\* C33: hybridization_energy adds the intra-complex correction (+4 to deltaS_corr) iff the
\* two domains already belong to the same complex; for domains of different complexes, or
\* of no complex at all (free strands), it is not applied.
C33_IntraComplexOnlyInOneComplex ==
    fn_pc = "energy" =>
       fn_out.deltaS_corr - DeltaSBeforeIntraComplex
          = IF fn_in.d1_Complex # None /\ fn_in.d1_Complex = fn_in.d2_Complex THEN 4 ELSE 0

\* The species pair of an invocation of hybridization_dH_dS.
SpeciesPair(inv) == {inv[1], inv[2]}

\* The memo holds, under every key, the standard values of hybridization_dH_dS.
MemoUnaltered ==
    \A k \in DOMAIN Domain_dHdS :
       Domain_dHdS[k] = hybridization_dH_dS(k, IF k = Upper[k] THEN Lower[k] ELSE Upper[k])

\* C34: over any sequence of hybridization_energy calls the nearest-neighbour function is
\* invoked at most once per domain species pair; every later call for the pair uses the
\* memoized standard (deltaH, deltaS), and the memoized values are never altered by the
\* corrections of earlier calls.
C34_OneInvocationPerSpeciesPair ==
    /\ \A i, j \in 1 .. Len(dH_dS_invocations) :
          i # j => SpeciesPair(dH_dS_invocations[i]) # SpeciesPair(dH_dS_invocations[j])
    /\ MemoUnaltered
    /\ fn_pc = "energy" =>
          /\ fn_out.deltaH - fn_out.deltaH_corr = hybridization_dH_dS(fn_in.d1_Name, fn_in.d2_Name)[1]
          /\ fn_out.deltaS - fn_out.deltaS_corr = hybridization_dH_dS(fn_in.d1_Name, fn_in.d2_Name)[2]

(***************************************************************************)
(* Claims about the icid radius of a Complex.                              *)
(***************************************************************************)

\* The complex with its icid_radius doubled k times.
RECURSIVE Doubled(_, _)
Doubled(c, k) == IF k = 0 THEN c ELSE Doubled([c EXCEPT !.icid_radius = @ * 2], k - 1)

InAnneal == anneal.pc = "loop"

\* The temperatures T_start + k * delta_T between T_start and T_finish inclusive.
ScheduledTemperatures ==
    LET lo == IF anneal.T_start <= anneal.T_finish THEN anneal.T_start ELSE anneal.T_finish
        hi == IF anneal.T_start <= anneal.T_finish THEN anneal.T_finish ELSE anneal.T_start
    IN  {T \in lo .. hi : \E k \in 0 .. hi - lo : T = anneal.T_start + k * anneal.delta_T}

\* The number of temperatures an anneal that is running has completed.
TemperaturesDone ==
    CHOOSE k \in 0 .. Cardinality(ScheduledTemperatures) :
        anneal.T = anneal.T_start + k * anneal.delta_T

\* The number of steps an anneal that is running has made.
AnnealSteps ==
    TemperaturesDone * anneal.n_steps_per_T + (IF sim_pc = "loop" THEN n_done ELSE 0)

\* save_stats_cache has been called by anneal in this step of the model.
SaveStatsCacheCalled == last_event'[1] \in {"save_stats_cache", "io_error"}

RatLeq(x, y) == x[1] * y[2] <= y[1] * x[2]

\* C37: for a selected pair that is hybridized, step replaces p_hyb by
\* 1 - oversampling * (1 - p_hyb) only when oversampling > 1 (with oversampling <= 1 the
\* probability is used unchanged), and the value compared with the uniform draw is within
\* [0, 1]; for an unhybridized pair p_hyb is never modified by oversampling.
C37_OversamplingOnlyAboveOne ==
    fn_pc = "p_hyb" =>
       LET o == fn_in.oversampling
           p == fn_in.p_hyb
       IN  /\ (fn_in.is_hybridized /\ ~RatLeq(o, <<1, 1>>)) =>
                 RatEq(fn_out, <<o[2] * p[2] - o[1] * (p[2] - p[1]), o[2] * p[2]>>)
           /\ (fn_in.is_hybridized /\ RatLeq(o, <<1, 1>>)) => RatEq(fn_out, p)
           /\ ~fn_in.is_hybridized => RatEq(fn_out, p)
           /\ RatLeq(<<0, 1>>, fn_out) /\ RatLeq(fn_out, <<1, 1>>)

\* C38: once the constructor has accepted the pairing map, the assertion of step
\* (domain1 != domain2 and domain1.Name != domain2.Name) never fails: every pair that
\* step can select, a fresh candidate or the partner of a hybridized domain, consists of
\* two distinct domains of different species.
C38_StepAssertionNeverFails ==
    sim_pc # "rejected" =>
        /\ last_event[1] # "assert"
        /\ \A ev \in select_event_domains(Partner, Strands, Domain_pairs) :
              ev[2] # None => /\ ev[1] # ev[2]
                              /\ SimName[ev[1]] # SimName[ev[2]]

\* In a tube whose only complementary pair is A of t1 and a of t2, a step selected the
\* pair that an earlier step had hybridized, passed the assertion and de-hybridized it.
C38_Witness ==
    /\ Strands = {1, 2}
    /\ last_event[1] = "dehybridize"
    /\ N_changes = 2
    /\ N_domains_hybridized = 0

(***************************************************************************)
(* Claims about the arguments of the edge mutators of a Complex            *)
(***************************************************************************)

\* The stacking pair with its two end-pairs in the other order.
Swapped(stacking_pair) == <<stacking_pair[2], stacking_pair[1]>>

\* The directed stacking edges of the graph.
StackingEdges(c) == {<<e[1], e[2]>> : e \in {e \in c.edges : e[3] = STACKING_INTERACTION}}

\* The call that was made last, made with the two end-pairs swapped instead.
LastCallSwapped == state_should_change(last.pre, last.op, Swapped(last.arg))

\* C39: add_stacking_edge and remove_stacking_edge do not depend on the order of the two
\* end-pairs of the stacking pair: the call with the end-pairs swapped returns in the
\* same cases, and it adds (removes) the same two directed stacking edges and the same
\* two ordered entries of stacked_pairs, leaving the same complex.
C39_StackingPairOrderIndependent ==
    /\ last.op = "add_stacking_edge" =>
          /\ LastCallSwapped.c = cx
          /\ LastCallSwapped.err = cx_err
          /\ StackingEdges(cx) = StackingEdges(last.pre) \cup StackingEdgesOf(last.arg)
          /\ cx.stacked_pairs = last.pre.stacked_pairs \cup StackingEdgesOf(last.arg)
    /\ last.op = "remove_stacking_edge" =>
          /\ (LastCallSwapped.err = "none") <=> (cx_err = "none")
          /\ cx_err = "none" =>
                /\ LastCallSwapped.c = cx
                /\ StackingEdgesOf(last.arg) \subseteq StackingEdges(last.pre)
                /\ StackingEdges(cx) = StackingEdges(last.pre) \ StackingEdgesOf(last.arg)
                /\ cx.stacked_pairs = last.pre.stacked_pairs \ StackingEdgesOf(last.arg)

\* remove_stacking_edge returned, having removed the two stacking edges of a stacking
\* pair that was passed with the end-pair of the higher-numbered helix first.
C39_Witness ==
    /\ last.op = "remove_stacking_edge"
    /\ cx_err = "none"
    /\ last.arg[1][1] > last.arg[2][1]
    /\ StackingEdgesOf(last.arg) \subseteq last.pre.stacked_pairs
    /\ cx.stacked_pairs = {}
    /\ StackingEdges(cx) = {}

\* The directed hybridization edges of the graph.
HybridizationEdges(c) ==
    {<<e[1], e[2]>> : e \in {e \in c.edges : e[3] = HYBRIDIZATION_INTERACTION}}

\* The last call was add_hybridization_edge for a pair that was in hybridized_pairs, or
\* remove_hybridization_edge for a pair that was not.
RedundantHybridizationCall ==
    \/ /\ last.op = "add_hybridization_edge"
       /\ {last.arg[1], last.arg[2]} \in last.pre.hybridized_pairs
    \/ /\ last.op = "remove_hybridization_edge"
       /\ {last.arg[1], last.arg[2]} \notin last.pre.hybridized_pairs

\* C40: add_hybridization_edge for a pair that is already in hybridized_pairs, and
\* remove_hybridization_edge for a pair that is not, raise (the assertion of the
\* decorator, or the error of a missing edge) and leave the hybridization edges of the
\* graph and hybridized_pairs as they were before the call.
C40_RedundantHybridizationCallFails ==
    RedundantHybridizationCall =>
        /\ cx_err # "none"
        /\ HybridizationEdges(cx) = HybridizationEdges(last.pre)
        /\ cx.hybridized_pairs = last.pre.hybridized_pairs

\* add_hybridization_edge was called for a pair that an earlier call had put in
\* hybridized_pairs together with its two edges; the assertion of the decorator failed.
C40_Witness ==
    /\ last.op = "add_hybridization_edge"
    /\ {last.arg[1], last.arg[2]} \in last.pre.hybridized_pairs
    /\ <<last.arg[1], last.arg[2]>> \in HybridizationEdges(last.pre)
    /\ cx_err = "AssertionError: state_should_change"
    /\ cx.hybridized_pairs = last.pre.hybridized_pairs

====
